---- MODULE Spec2Model ----
(***************************************************************************)
(* Model of the Shoy versioned-value store (src/src/index.ts, class Shoy): *)
(* canonical hashing, patch merge, the version log with retention, the     *)
(* undo/redo/revert pointer moves and the subscriber fan-out.              *)
(*                                                                         *)
(* JavaScript strings are sequences of one-character strings, so that the  *)
(* rolling hash can read character codes.  JavaScript values are records   *)
(* [t, n, s, e]: t is the runtime type, n the number (or 0/1 for a         *)
(* boolean), s the string, e the entries [k, v] of a keyed record (in      *)
(* declaration order) or of an array (k empty, in element order).          *)
(***************************************************************************)
EXTENDS Integers, Sequences, FiniteSets, TLC

(* ---------------------------------------------------------------------- *)
(* Bounds                                                                 *)
(* ---------------------------------------------------------------------- *)
MaxHist == 3
\* Most subscribe calls a caller makes for one callback before it
\* unsubscribes it.
MaxSubs == 2
\* Most WebSockets one SyncManager creates.
MaxSockets == 3
\* The largest maxSnapshots given to useDevTools.
MaxSnapshots == 2
\* Most calls of PatchStore.apply in flight at a time.
MaxPending == 2

(* ---------------------------------------------------------------------- *)
(* JavaScript values                                                      *)
(* ---------------------------------------------------------------------- *)
Num(i) == [t |-> "num", n |-> i, s |-> <<>>, e |-> <<>>]
StrV(chars) == [t |-> "str", n |-> 0, s |-> chars, e |-> <<>>]
Bool(b) == [t |-> "bool", n |-> IF b THEN 1 ELSE 0, s |-> <<>>, e |-> <<>>]
Null == [t |-> "null", n |-> 0, s |-> <<>>, e |-> <<>>]
Undefined == [t |-> "undef", n |-> 0, s |-> <<>>, e |-> <<>>]
Arr(items) == [t |-> "arr", n |-> 0, s |-> <<>>,
               e |-> [i \in 1..Len(items) |-> [k |-> <<>>, v |-> items[i]]]]
Obj(entries) == [t |-> "obj", n |-> 0, s |-> <<>>, e |-> entries]
Fn(id) == [t |-> "fn", n |-> id, s |-> <<>>, e |-> <<>>]
KV(key, val) == [k |-> key, v |-> val]

\* A reference to an object the caller built and then tied into a cycle or
\* used in several places:
\*   Heap[1]:  const circular = { a: 2 }; circular.self = circular
\*   Heap[2]:  const loop = [];           loop.push(loop)
\*   Heap[3]:  const shared = { a: 2 }
\*   Heap[4]:  const ping = {}; const pong = [ping]; ping.c = pong
\*   Heap[5]:  pong
\*   Heap[6]:  const diamond = { a: shared, b: shared }
\* Every other object of the model is a literal, a tree written in place.
Ref(id) == [t |-> "ref", n |-> id, s |-> <<>>, e |-> <<>>]
Heap ==
    << Obj(<<KV(<<"a">>, Num(2)), KV(<<"s", "e", "l", "f">>, Ref(1))>>),
       Arr(<<Ref(2)>>),
       Obj(<<KV(<<"a">>, Num(2))>>),
       Obj(<<KV(<<"c">>, Ref(5))>>),
       Arr(<<Ref(4)>>),
       Obj(<<KV(<<"a">>, Ref(3)), KV(<<"b">>, Ref(3))>>) >>
Deref(value) == IF value.t = "ref" THEN Heap[value.n] ELSE value

isObject(value) == value.t \in {"obj", "arr", "ref"}
isPrimitive(value) == ~isObject(value)
isArray(value) == Deref(value).t = "arr"

\* Object.is on primitives of the model (no NaN, no negative zero).
ObjectIs(a, b) == a.t = b.t /\ a.n = b.n /\ a.s = b.s

\* JavaScript truthiness, as tested by `!state`.
Falsy(v) ==
    \/ v.t \in {"undef", "null"}
    \/ v.t = "num" /\ v.n = 0
    \/ v.t = "bool" /\ v.n = 0
    \/ v.t = "str" /\ v.s = <<>>

(* ---------------------------------------------------------------------- *)
(* Strings                                                                *)
(* ---------------------------------------------------------------------- *)
CharCode ==
    ("0" :> 48) @@ ("1" :> 49) @@ ("2" :> 50) @@ ("3" :> 51) @@ ("4" :> 52) @@
    ("5" :> 53) @@ ("6" :> 54) @@ ("7" :> 55) @@ ("8" :> 56) @@ ("9" :> 57) @@
    ("," :> 44) @@ ("-" :> 45) @@ (":" :> 58) @@ ("[" :> 91) @@ ("]" :> 93) @@
    ("{" :> 123) @@ ("}" :> 125) @@
    ("a" :> 97) @@ ("b" :> 98) @@ ("c" :> 99) @@ ("d" :> 100) @@ ("e" :> 101) @@
    ("f" :> 102) @@ ("i" :> 105) @@ ("l" :> 108) @@ ("n" :> 110) @@
    ("r" :> 114) @@ ("s" :> 115) @@ ("t" :> 116) @@ ("u" :> 117)

DecDigits == <<"0", "1", "2", "3", "4", "5", "6", "7", "8", "9">>

Base36Digits ==
    <<"0", "1", "2", "3", "4", "5", "6", "7", "8", "9", "a", "b", "c", "d",
      "e", "f", "g", "h", "i", "j", "k", "l", "m", "n", "o", "p", "q", "r",
      "s", "t", "u", "v", "w", "x", "y", "z">>

RECURSIVE NatToDec(_)
NatToDec(i) ==
    IF i < 10 THEN <<DecDigits[i + 1]>>
    ELSE NatToDec(i \div 10) \o <<DecDigits[(i % 10) + 1]>>

\* String(value) for a primitive value.
String(value) ==
    CASE value.t = "num" ->
            IF value.n < 0 THEN <<"-">> \o NatToDec(0 - value.n)
            ELSE NatToDec(value.n)
      [] value.t = "str" -> value.s
      [] value.t = "bool" ->
            IF value.n = 1 THEN <<"t", "r", "u", "e">>
            ELSE <<"f", "a", "l", "s", "e">>
      [] value.t = "null" -> <<"n", "u", "l", "l">>
      [] OTHER -> <<"u", "n", "d", "e", "f", "i", "n", "e", "d">>

\* Comparison of two strings by code units, as Array.prototype.sort does.
RECURSIVE StrLess(_, _)
StrLess(a, b) ==
    IF a = <<>> THEN b # <<>>
    ELSE IF b = <<>> THEN FALSE
    ELSE IF CharCode[Head(a)] # CharCode[Head(b)]
         THEN CharCode[Head(a)] < CharCode[Head(b)]
    ELSE StrLess(Tail(a), Tail(b))

\* Array.prototype.join(",") over a sequence of strings.
RECURSIVE Join(_)
Join(strs) ==
    IF strs = <<>> THEN <<>>
    ELSE IF Len(strs) = 1 THEN strs[1]
    ELSE strs[1] \o <<",">> \o Join(Tail(strs))

(* ---------------------------------------------------------------------- *)
(* Keyed records                                                          *)
(* ---------------------------------------------------------------------- *)
Keys(obj) == [i \in 1..Len(obj.e) |-> obj.e[i].k]
HasKey(obj, key) == \E i \in 1..Len(obj.e) : obj.e[i].k = key
\* obj[key]: undefined for an absent key.
Field(obj, key) ==
    IF obj.t = "obj" /\ HasKey(obj, key)
    THEN obj.e[CHOOSE i \in 1..Len(obj.e) : obj.e[i].k = key].v
    ELSE Undefined
\* obj[key] = val: an existing key keeps its place, a new key goes last.
SetField(obj, key, val) ==
    IF HasKey(obj, key)
    THEN Obj([i \in 1..Len(obj.e) |->
                 IF obj.e[i].k = key THEN KV(key, val) ELSE obj.e[i]])
    ELSE Obj(Append(obj.e, KV(key, val)))

\* Object.keys(obj) left in declaration order.
SortKeys_declared(keys) == keys

RECURSIVE SortKeys(_)
SortKeys(keys) ==
    IF keys = <<>> THEN <<>>
    ELSE LET m == CHOOSE i \in 1..Len(keys) :
                    \A j \in 1..Len(keys) : ~StrLess(keys[j], keys[i])
         IN <<keys[m]>> \o
            SortKeys([i \in 1..(Len(keys) - 1) |->
                         IF i < m THEN keys[i] ELSE keys[i + 1]])

(* ---------------------------------------------------------------------- *)
(* Canonical Hasher                                                       *)
(* ---------------------------------------------------------------------- *)
RECURSIVE fastObjectHash(_)
fastObjectHash(obj) ==
    IF isArray(obj)
    THEN <<"[">> \o
         Join([i \in 1..Len(obj.e) |->
                  IF isObject(obj.e[i].v) THEN fastObjectHash(obj.e[i].v)
                  ELSE String(obj.e[i].v)]) \o
         <<"]">>
    ELSE LET keys == SortKeys(Keys(obj))
         IN <<"{">> \o
            Join([i \in 1..Len(keys) |->
                     LET value == Field(obj, keys[i])
                         valueStr == IF isObject(value) THEN fastObjectHash(value)
                                     ELSE String(value)
                     IN keys[i] \o <<":">> \o valueStr]) \o
            <<"}">>

\* a ^ b for 0 <= a, b < 2^16, bit by bit.
BitXor(a, b) ==
    LET Bit(k) == (((a \div (2 ^ k)) + (b \div (2 ^ k))) % 2) * (2 ^ k)
    IN (((Bit(0) + Bit(1)) + (Bit(2) + Bit(3)))
           + ((Bit(4) + Bit(5)) + (Bit(6) + Bit(7))))
       + (((Bit(8) + Bit(9)) + (Bit(10) + Bit(11)))
           + ((Bit(12) + Bit(13)) + (Bit(14) + Bit(15))))

\* One round of `h = (h * 33) ^ code` on a 32-bit h kept as two 16-bit
\* halves <<high, low>>.
HashStep(h, code) ==
    LET m == h[2] * 33
    IN <<(h[1] * 33 + (m \div 65536)) % 65536, BitXor(m % 65536, code)>>

\* The `for` loop of hash; loop holds its variables: i, one-based, and h.
RECURSIVE HashLoop(_, _)
HashLoop(hashStr, loop) ==
    IF loop.i > Len(hashStr) THEN loop.h
    ELSE HashLoop(hashStr,
                  [i |-> loop.i + 1,
                   h |-> HashStep(loop.h, CharCode[hashStr[loop.i]])])

\* (h >>> 0).toString(36) of the 32-bit value <<high, low>>.
RECURSIVE ToBase36(_)
ToBase36(h) ==
    LET qhi == h[1] \div 36
        rest == (h[1] % 36) * 65536 + h[2]
        qlo == rest \div 36
        digit == <<Base36Digits[(rest % 36) + 1]>>
    IN IF qhi = 0 /\ qlo = 0 THEN digit
       ELSE ToBase36(<<qhi, qlo>>) \o digit

hash(state) ==
    IF isPrimitive(state) THEN <<"p">> \o String(state)
    ELSE <<"i">> \o ToBase36(HashLoop(fastObjectHash(state),
                                      [i |-> 1, h |-> <<0, 5381>>]))

(* ---------------------------------------------------------------------- *)
(* Structural Equality Checker                                            *)
(* ---------------------------------------------------------------------- *)
RECURSIVE isEqual(_, _)
isEqual(a, b) ==
    IF isPrimitive(a) \/ isPrimitive(b) THEN ObjectIs(a, b)
    ELSE IF a.t # b.t THEN FALSE
    ELSE IF isArray(a)
    THEN /\ Len(a.e) = Len(b.e)
         /\ \A i \in 1..Len(a.e) : isEqual(a.e[i].v, b.e[i].v)
    ELSE /\ Len(a.e) = Len(b.e)
         /\ \A i \in 1..Len(a.e) :
                /\ HasKey(b, a.e[i].k)
                /\ isEqual(a.e[i].v, Field(b, a.e[i].k))

(* ---------------------------------------------------------------------- *)
(* Patch Resolver                                                         *)
(* ---------------------------------------------------------------------- *)
RECURSIVE deepMerge(_, _)
RECURSIVE MergeLoop(_, _, _, _)
\* a merge loop that does not descend into nested records.
RECURSIVE MergeLoop_shallow(_, _, _, _)
MergeLoop_shallow(result, prev, patch, i) ==
    IF i > Len(patch.e) THEN result
    ELSE MergeLoop_shallow(SetField(result, patch.e[i].k, patch.e[i].v),
                           prev, patch, i + 1)

\* The `for (const key in patch)` loop of deepMerge, from the i-th key on.
MergeLoop(result, prev, patch, i) ==
    IF i > Len(patch.e) THEN result
    ELSE LET key == patch.e[i].k
             prevValue == Field(prev, key)
             patchValue == patch.e[i].v
             merged ==
                 IF /\ isObject(prevValue) /\ isObject(patchValue)
                    /\ ~isArray(prevValue) /\ ~isArray(patchValue)
                 THEN deepMerge(prevValue, patchValue)
                 ELSE patchValue
         IN MergeLoop(SetField(result, key, merged), prev, patch, i + 1)

\* a merge that treats arrays as keyed records.
deepMerge_intoArrays(prev, patch) ==
    IF isPrimitive(prev) \/ isPrimitive(patch) THEN patch
    ELSE MergeLoop(Obj(Deref(prev).e), Deref(prev), Deref(patch), 1)

deepMerge(prev, patch) ==
    IF isPrimitive(prev) \/ isPrimitive(patch) THEN patch
    ELSE IF isArray(prev) \/ isArray(patch) THEN patch
    ELSE MergeLoop(Obj(Deref(prev).e), Deref(prev), Deref(patch), 1)

(* ---------------------------------------------------------------------- *)
(* Reference cycles                                                       *)
(* ---------------------------------------------------------------------- *)
\* TRUE when checkCircularReference throws. Each child is visited with its
\* own copy of the set, so visited holds the objects on the path from the
\* root; only the caller's objects of Heap can be met twice.
RECURSIVE checkCircularReference(_, _)
\* a check that does not look into arrays.
RECURSIVE checkCircularReference_recordsOnly(_, _)
checkCircularReference_recordsOnly(obj, visited) ==
    IF obj.t = "ref" /\ obj.n \in visited THEN TRUE
    ELSE LET seen == IF obj.t = "ref" THEN visited \cup {obj.n} ELSE visited
             items == IF isArray(obj) THEN <<>> ELSE Deref(obj).e
         IN \E i \in 1..Len(items) :
                /\ isObject(items[i].v)
                /\ checkCircularReference_recordsOnly(items[i].v, seen)

checkCircularReference(obj, visited) ==
    IF obj.t = "ref" /\ obj.n \in visited THEN TRUE
    ELSE LET seen == IF obj.t = "ref" THEN visited \cup {obj.n} ELSE visited
             items == Deref(obj).e
         IN \E i \in 1..Len(items) :
                /\ isObject(items[i].v)
                /\ checkCircularReference(items[i].v, seen)

\* TRUE when validateState throws "Circular reference detected in state
\* object".
validateState(state) ==
    isObject(state) /\ checkCircularReference(state, {})

\* The objects of Heap a value refers to directly.
RECURSIVE RefsIn(_)
RefsIn(value) ==
    IF value.t = "ref" THEN {value.n}
    ELSE UNION {RefsIn(value.e[i].v) : i \in 1..Len(value.e)}

RECURSIVE Closure(_)
Closure(ids) ==
    LET more == ids \cup UNION {RefsIn(Heap[id]) : id \in ids}
    IN IF more = ids THEN ids ELSE Closure(more)

\* fastObjectHash recurses into every object it meets and keeps no record
\* of them: on a value from which an object lying on a cycle can be reached
\* the recursion never returns and the call stack overflows (RangeError).
Overflows(obj) ==
    \E id \in Closure(RefsIn(obj)) : id \in Closure(RefsIn(Heap[id]))

\* The value contains a reference cycle: following fields and elements
\* from it, some object is met that leads back to itself.
Cyclic(value) ==
    \E id \in Closure(RefsIn(value)) :
        \E via \in RefsIn(Heap[id]) : id \in Closure({via})

\* TRUE when hash(state) throws.
hashRaises(state) == isObject(state) /\ Overflows(state)

(* ---------------------------------------------------------------------- *)
(* Inputs of the store model                                              *)
(* ---------------------------------------------------------------------- *)
KeyA == <<"a">>
KeyB == <<"b">>
Callbacks == {1, 2}

\* Callbacks that act on the store's subscriptions when they are invoked:
\*   3: h => unsubscribe1()   the unsubscribe function of callback 1
\*   4: h => unsubscribe4()   its own unsubscribe function
\* Callbacks 1 and 2 only take note of the hash.
ActiveCallbacks == {3, 4}

\* The Set of listeners after the callback cb has run.
Invoke(cb, ls) ==
    IF cb = 3 THEN SelectSeq(ls, LAMBDA l : l # 1)
    ELSE IF cb = 4 THEN SelectSeq(ls, LAMBDA l : l # 4)
    ELSE ls

\* Updater functions a caller may pass to apply.
\*   Fn(1): prev => ({ a: prev.a === 1 ? 2 : 1 })
\*   Fn(2): prev => (prev === 1 ? 2 : 1)
\*   Fn(3): prev => { throw new Error("updater") }
\*   Fn(4): prev => [prev.length]
FnThrows(fn) == fn.n = 3

CallFn(fn, prev) ==
    IF fn.n = 1
    THEN IF Field(prev, KeyA) = Num(1)
         THEN Obj(<<KV(KeyA, Num(2))>>)
         ELSE Obj(<<KV(KeyA, Num(1))>>)
    ELSE IF fn.n = 4 THEN Arr(<<Num(Len(prev.e))>>)
    ELSE IF prev = Num(1) THEN Num(2) ELSE Num(1)

\* A store is a Shoy<S>: either S is the record type
\* { a: number | string, b?: number } or S is number.
InitStates == {Obj(<<KV(KeyA, Num(1))>>), Num(1)}

\* The patches Patch<S> admits, for the S of the given state.
Patches(state) ==
    IF isObject(state)
    THEN { Obj(<<KV(KeyA, StrV(<<"1">>))>>),
           Obj(<<KV(KeyB, Num(1))>>),
           Fn(1) }
    ELSE { Num(0), Num(2), Fn(2) }

\* A fingerprint no value of the model has.
InvalidHash == <<"i", "n", "v", "a", "l", "i", "d">>

(* ---------------------------------------------------------------------- *)
(* State of one Shoy instance                                             *)
(* ---------------------------------------------------------------------- *)
VARIABLES
    onError,     \* whether the options of the constructor gave a handler
    maxHistory,  \* options.maxHistory ?? 0
    versions,    \* the Map<Hash, S>: entries [h, v] in insertion order
    rootHash,    \* the Root Pointer
    listeners,   \* the Set of callbacks, in insertion order
    last,        \* the last public call: its arguments, the pointer and
                 \* the value it started from, what it returned or raised,
                 \* the callbacks it invoked, the handleError calls it made
                 \* and whether it went through commit
    trip,        \* the caller's script of the undo/redo round trip: the
                 \* values it applies and how many calls it has made
                 \* (pc = 0 and no values when no script is running)
    reg,         \* a caller's own record of its subscriptions: for each
                 \* callback, how many subscribe calls it made since the
                 \* last unsubscribe, whether it has unsubscribed it, and
                 \* its rank by time of registration among the callbacks
                 \* now registered (all zero when no caller keeps the
                 \* record)
    probe,       \* a pair of values handed to the hasher or to the merge,
                 \* and the two fingerprints or the merged value obtained
                 \* (done = FALSE before the call)
    sync,        \* the SyncManager attached to the store: the WebSockets it
                 \* has created with their readyState, the one it holds
                 \* (0 for null), whether a reconnect timer is pending, the
                 \* subscription it holds (0 for null), and whether
                 \* disconnect() has been called
    chain,       \* the MiddlewareChain of the store: whether getOrCreateChain
                 \* has replaced store.apply, and the middlewares added (a
                 \* validator middleware is the number of its validator)
    devtools,    \* the DevTools attached to the store: whether useDevTools
                 \* was called, options.maxSnapshots, and the snapshots
                 \* [hash, state] it holds, oldest first
    pending      \* the calls of PatchStore.apply suspended at `await
                 \* this.hash(state)`, in the order they were started: the
                 \* patch of each and the value it is about to commit

utils == <<sync, chain, devtools, pending>>

vars ==
    <<onError, maxHistory, versions, rootHash, listeners, last, trip, reg,
      probe, utils>>

\* No SyncManager has been created.
NoSync == [sockets |-> <<>>, socket |-> 0, reconnectTimer |-> FALSE,
           unsubscribe |-> 0, disconnected |-> FALSE]
\* No middleware was ever added: store.apply is the method of the class.
NoChain == [wrapped |-> FALSE, middlewares |-> <<>>]
\* useDevTools was not called.
NoDevTools == [attached |-> FALSE, maxSnapshots |-> 0, snapshots |-> <<>>]
NoUtils ==
    sync = NoSync /\ chain = NoChain /\ devtools = NoDevTools /\ pending = <<>>

NoReg == [cb \in Callbacks |-> [n |-> 0, off |-> FALSE, rank |-> 0]]
NoProbe == [a |-> Undefined, b |-> Undefined, ha |-> <<>>, hb |-> <<>>,
            out |-> Undefined, way |-> "none", done |-> FALSE]

(* ---------------------------------------------------------------------- *)
(* The insertion-ordered Map                                              *)
(* ---------------------------------------------------------------------- *)
MapKeys(m) == [i \in 1..Len(m) |-> m[i].h]
MapHas(m, h) == \E i \in 1..Len(m) : m[i].h = h
\* Map.get: undefined for an absent key.
MapGet(m, h) ==
    IF MapHas(m, h) THEN m[CHOOSE i \in 1..Len(m) : m[i].h = h].v
    ELSE Undefined
\* Map.set that moves an existing key to the end, as delete followed by set
\* would.
MapSet_moveToEnd(m, h, v) ==
    Append(SelectSeq(m, LAMBDA entry : entry.h # h), [h |-> h, v |-> v])

\* Map.set that puts a new key before the entries already there.
MapSet_prepend(m, h, v) ==
    IF MapHas(m, h)
    THEN [i \in 1..Len(m) |-> IF m[i].h = h THEN [h |-> h, v |-> v] ELSE m[i]]
    ELSE <<[h |-> h, v |-> v]>> \o m

\* Map.set that, for a key already present, writes the value into the first
\* entry of the Map.
MapSet_intoFirst(m, h, v) ==
    IF MapHas(m, h)
    THEN [i \in 1..Len(m) |-> IF i = 1 THEN [h |-> m[i].h, v |-> v] ELSE m[i]]
    ELSE Append(m, [h |-> h, v |-> v])

\* Map.set: an existing key keeps its place and takes the new value; a new
\* key goes last.
MapSet(m, h, v) ==
    IF MapHas(m, h)
    THEN [i \in 1..Len(m) |-> IF m[i].h = h THEN [h |-> h, v |-> v] ELSE m[i]]
    ELSE Append(m, [h |-> h, v |-> v])

\* Array.prototype.indexOf, zero-based, -1 when absent.
indexOf(seq, x) ==
    IF \E i \in 1..Len(seq) : seq[i] = x
    THEN (CHOOSE i \in 1..Len(seq) :
              seq[i] = x /\ \A j \in 1..(i - 1) : seq[j] # x) - 1
    ELSE -1

(* ---------------------------------------------------------------------- *)
(* Version Log, retention and fan-out                                     *)
(* ---------------------------------------------------------------------- *)
history == IF maxHistory > 0 THEN MapKeys(versions) ELSE <<>>

\* prune that keeps the oldest entries instead of the newest.
prune_keepOldest(m) ==
    IF maxHistory <= 0 THEN m
    ELSE IF Len(m) > maxHistory + 1
    THEN SubSeq(m, 1, maxHistory + 1)
    ELSE m

\* prune that lets one entry too many stay.
prune_offByOne(m) ==
    IF maxHistory <= 0 THEN m
    ELSE IF Len(m) > maxHistory + 2
    THEN SubSeq(m, Len(m) - maxHistory - 1, Len(m))
    ELSE m

prune(m) ==
    IF maxHistory <= 0 THEN m
    ELSE IF Len(m) > maxHistory + 1
    THEN SubSeq(m, Len(m) - maxHistory, Len(m))
    ELSE m

\* Set.prototype.forEach over the live Set, from its i-th entry on: entries
\* are visited in insertion order; when a callback deletes entries, the
\* ones after them move up, so that an entry deleted before its turn is
\* never visited. (No callback of the model adds an entry during the
\* iteration.)
RECURSIVE forEach(_, _, _, _)
forEach(ls, i, calls, h) ==
    IF i > Len(ls) THEN calls
    ELSE LET after == Invoke(ls[i], ls)
             kept == Cardinality({j \in 1..i :
                                    \E k \in 1..Len(after) : after[k] = ls[j]})
         IN forEach(after, kept + 1, Append(calls, [cb |-> ls[i], h |-> h]),
                    h)

\* a fan-out that visits the callbacks from the last registered to the
\* first.
notify_reversed(h) ==
    [i \in 1..Len(listeners) |->
        [cb |-> listeners[Len(listeners) + 1 - i], h |-> h]]

\* listeners.forEach(cb => cb(hash)): the calls made, in order.
notify(h) == forEach(listeners, 1, <<>>, h)

\* The Set of listeners once the callbacks of calls have run, in order.
RECURSIVE After(_, _, _)
After(ls, calls, i) ==
    IF i > Len(calls) THEN ls
    ELSE After(Invoke(calls[i].cb, ls), calls, i + 1)

\* What a call leaves behind: the log, the pointer, the result ("hash",
\* "true", "false" or "throw"), the returned hash, the callbacks invoked and
\* the contexts handed to handleError.
Outcome(vs, root, ret, rhash, calls, errs) ==
    [versions |-> vs, rootHash |-> root, ret |-> ret, rhash |-> rhash,
     calls |-> calls, errs |-> errs, committed |-> FALSE, error |-> "none",
     listeners |-> After(listeners, calls, 1)]

\* `catch (error) { this.handleError(error, context); throw error }` with
\* nothing assigned before the throw: errs lists the contexts handed to
\* handleError on the way out.
Throw_afterNotify(error, errs) ==
    [Outcome(versions, rootHash, "throw", <<>>, notify(rootHash), errs)
        EXCEPT !.error = error]

Throw(error, errs) ==
    [Outcome(versions, rootHash, "throw", <<>>, <<>>, errs)
        EXCEPT !.error = error]

\* An exception passing through one more catch block.
Rethrow(o, context) ==
    IF o.ret = "throw" THEN [o EXCEPT !.errs = Append(@, context)] ELSE o

\* The calls the configured onError handler receives out of the given
\* handleError calls; without a handler they go to console.error.
handleError(errs) == IF onError THEN errs ELSE <<>>

\* commit that prunes whatever maxHistory is, without the branch that
\* clears the other entries when history is disabled.
commit_alwaysPrune(state) ==
    LET h == hash(state)
        set == MapSet(versions, h, state)
    IN [Outcome(prune(set), h, "hash", h, notify(h), <<>>)
           EXCEPT !.committed = TRUE]

commit(state) ==
    IF validateState(state) THEN Throw("CircularReference", <<"commit">>)
    ELSE IF hashRaises(state) THEN Throw("RangeError", <<"commit">>)
    ELSE LET h == hash(state)
             set == MapSet(versions, h, state)
             kept == IF maxHistory > 0 THEN prune(set)
                     ELSE SelectSeq(set, LAMBDA entry : entry.h = h)
         IN [Outcome(kept, h, "hash", h, notify(h), <<>>)
                EXCEPT !.committed = TRUE]

current == MapGet(versions, rootHash)

\* The getter as a caller sees it: the stored value, or the error raised
\* when the stored value is falsy.
getCurrent ==
    LET state == current
    IN IF Falsy(state)
       THEN [error |-> "Corruption", value |-> Undefined]
       ELSE [error |-> "none", value |-> state]

apply(patch) ==
    LET prev == current
    IN IF Falsy(prev)
       THEN Throw("Corruption", <<"current", "apply">>)
       ELSE IF patch.t = "fn" /\ FnThrows(patch)
       THEN Throw("Updater", <<"apply">>)
       ELSE LET patchResult == IF patch.t = "fn" THEN CallFn(patch, prev)
                               ELSE patch
            IN IF isPrimitive(prev) /\ isPrimitive(patchResult)
               THEN IF ObjectIs(prev, patchResult)
                    THEN Outcome(versions, rootHash, "hash", rootHash,
                                 <<>>, <<>>)
                    ELSE Rethrow(commit(patchResult), "apply")
               ELSE LET next == deepMerge(prev, patchResult)
                    IN IF hashRaises(next)
                       THEN Throw("RangeError", <<"apply">>)
                       ELSE IF hash(next) = rootHash
                       THEN Outcome(versions, rootHash, "hash", rootHash,
                                    <<>>, <<>>)
                       ELSE Rethrow(commit(next), "apply")

\* revert that moves the pointer without looking the hash up in the log.
revert_noLookup(h) ==
    IF maxHistory = 0
    THEN Outcome(versions, rootHash, "false", <<>>, <<>>, <<>>)
    ELSE Outcome(versions, h, "true", <<>>, notify(h), <<>>)

\* revert that does not test whether history is disabled.
revert_ignoresDisabled(h) ==
    IF ~MapHas(versions, h)
    THEN Outcome(versions, rootHash, "false", <<>>, <<>>, <<>>)
    ELSE Outcome(versions, h, "true", <<>>, notify(h), <<>>)

revert(h) ==
    IF maxHistory = 0 \/ ~MapHas(versions, h)
    THEN Outcome(versions, rootHash, "false", <<>>, <<>>, <<>>)
    ELSE Outcome(versions, h, "true", <<>>, notify(h), <<>>)

\* undo that jumps to the first entry of the history.
undo_toFirst ==
    IF maxHistory = 0
    THEN Outcome(versions, rootHash, "false", <<>>, <<>>, <<>>)
    ELSE LET currentIdx == indexOf(history, rootHash)
         IN IF currentIdx <= 0
            THEN Outcome(versions, rootHash, "false", <<>>, <<>>, <<>>)
            ELSE Outcome(versions, history[1], "true", <<>>,
                         notify(history[1]), <<>>)

undo ==
    IF maxHistory = 0
    THEN Outcome(versions, rootHash, "false", <<>>, <<>>, <<>>)
    ELSE LET currentIdx == indexOf(history, rootHash)
         IN IF currentIdx <= 0
            THEN Outcome(versions, rootHash, "false", <<>>, <<>>, <<>>)
            ELSE LET prevHash == history[currentIdx]
                 IN Outcome(versions, prevHash, "true", <<>>,
                            notify(prevHash), <<>>)

\* redo that jumps to the last entry of the history.
redo_toLast ==
    IF maxHistory = 0
    THEN Outcome(versions, rootHash, "false", <<>>, <<>>, <<>>)
    ELSE LET currentIdx == indexOf(history, rootHash)
         IN IF currentIdx >= Len(history) - 1
            THEN Outcome(versions, rootHash, "false", <<>>, <<>>, <<>>)
            ELSE Outcome(versions, history[Len(history)], "true", <<>>,
                         notify(history[Len(history)]), <<>>)

redo ==
    IF maxHistory = 0
    THEN Outcome(versions, rootHash, "false", <<>>, <<>>, <<>>)
    ELSE LET currentIdx == indexOf(history, rootHash)
         IN IF currentIdx >= Len(history) - 1
            THEN Outcome(versions, rootHash, "false", <<>>, <<>>, <<>>)
            ELSE LET nextHash == history[currentIdx + 2]
                 IN Outcome(versions, nextHash, "true", <<>>,
                            notify(nextHash), <<>>)

(* ---------------------------------------------------------------------- *)
(* Actions: one per public operation                                       *)
(* ---------------------------------------------------------------------- *)
Call(op, patch, harg, o) ==
    [op |-> op, patch |-> patch, harg |-> harg,
     preRoot |-> rootHash, prev |-> MapGet(versions, rootHash),
     ret |-> o.ret, rhash |-> o.rhash, calls |-> o.calls, errs |-> o.errs,
     committed |-> o.committed, error |-> o.error]

Finish(op, patch, harg, o) ==
    /\ versions' = o.versions
    /\ rootHash' = o.rootHash
    /\ last' = Call(op, patch, harg, o)
    /\ listeners' = o.listeners
    /\ UNCHANGED <<onError, maxHistory>>

ConstructorCall(initialState, ret, error, errs) ==
    [op |-> "constructor", patch |-> initialState, harg |-> <<>>,
     preRoot |-> <<>>, prev |-> Undefined, ret |-> ret, rhash |-> <<>>,
     calls |-> <<>>, errs |-> errs, committed |-> FALSE, error |-> error]

\* a constructor that fingerprints the initial value before validating it.
construct_hashFirst(initialState) ==
    IF hashRaises(initialState)
    THEN [versions |-> <<>>, rootHash |-> <<>>,
          last |-> ConstructorCall(initialState, "throw", "RangeError",
                                   <<"constructor">>)]
    ELSE [versions |-> <<[h |-> hash(initialState), v |-> initialState]>>,
          rootHash |-> hash(initialState),
          last |-> ConstructorCall(initialState, "none", "none", <<>>)]

\* The body of the constructor: the fields it leaves behind and how it
\* ended. When it throws, the fields keep their initialisers and the caller
\* gets no instance.
construct(initialState) ==
    IF validateState(initialState)
    THEN [versions |-> <<>>, rootHash |-> <<>>,
          last |-> ConstructorCall(initialState, "throw",
                                   "CircularReference", <<"constructor">>)]
    ELSE IF hashRaises(initialState)
    THEN [versions |-> <<>>, rootHash |-> <<>>,
          last |-> ConstructorCall(initialState, "throw", "RangeError",
                                   <<"constructor">>)]
    ELSE [versions |-> <<[h |-> hash(initialState), v |-> initialState]>>,
          rootHash |-> hash(initialState),
          last |-> ConstructorCall(initialState, "none", "none", <<>>)]

\* new Shoy(initialState, { maxHistory: mh, onError }) with or without a
\* handler.
New(initialState, mh, handler) ==
    LET c == construct(initialState)
    IN /\ onError = handler
       /\ maxHistory = mh
       /\ versions = c.versions
       /\ rootHash = c.rootHash
       /\ listeners = <<>>
       /\ last = c.last

\* The caller holds an instance: the constructor returned.
Constructed == ~(last.op = "constructor" /\ last.ret = "throw")

\* new Shoy(initialState, { maxHistory, onError })
Init ==
    \E initialState \in InitStates, mh \in 0..MaxHist :
        /\ New(initialState, mh, TRUE)
        /\ trip = [pc |-> 0, vals |-> <<>>]
        /\ reg = NoReg
        /\ NoUtils
        /\ probe = NoProbe

Apply ==
    /\ Constructed
    /\ \E patch \in Patches(versions[1].v) :
           Finish("apply", patch, <<>>, apply(patch))
    /\ UNCHANGED <<utils, trip, reg, probe>>

\* The hashes a caller may hold: any fingerprint of the log, the fingerprint
\* of any value it could have committed earlier, or a made-up one.
RevertArgs ==
    {versions[i].h : i \in 1..Len(versions)}
        \cup {hash(v) : v \in InitStates} \cup {InvalidHash}

Revert ==
    /\ Constructed
    /\ \E h \in RevertArgs : Finish("revert", Undefined, h, revert(h))
    /\ UNCHANGED <<utils, trip, reg, probe>>

Undo ==
    /\ Constructed
    /\ Finish("undo", Undefined, <<>>, undo)
    /\ UNCHANGED <<utils, trip, reg, probe>>

Redo ==
    /\ Constructed
    /\ Finish("redo", Undefined, <<>>, redo)
    /\ UNCHANGED <<utils, trip, reg, probe>>

\* subscribe that keeps its callbacks in an array.
subscribe_push(cb) == Append(listeners, cb)

\* subscribe(cb): Set.add keeps the place of a callback already present.
subscribe(cb) ==
    IF \E i \in 1..Len(listeners) : listeners[i] = cb
    THEN listeners
    ELSE Append(listeners, cb)

\* an unsubscribe function that forgets to delete.
unsubscribe_keeps(cb) == listeners

\* The function returned by subscribe(cb): listeners.delete(cb).
unsubscribe(cb) == SelectSeq(listeners, LAMBDA l : l # cb)

Subscribe ==
    /\ Constructed
    /\ \E cb \in Callbacks :
        /\ listeners' = subscribe(cb)
        /\ last' = Call("subscribe", Undefined, <<>>,
                        Outcome(versions, rootHash, "none", <<>>, <<>>, <<>>))
        /\ UNCHANGED <<utils, onError, maxHistory, versions, rootHash, trip,
                       reg, probe>>

Unsubscribe ==
    /\ Constructed
    /\ \E cb \in Callbacks :
        /\ \E i \in 1..Len(listeners) : listeners[i] = cb
        /\ listeners' = unsubscribe(cb)
        /\ last' = Call("unsubscribe", Undefined, <<>>,
                        Outcome(versions, rootHash, "none", <<>>, <<>>, <<>>))
        /\ UNCHANGED <<utils, onError, maxHistory, versions, rootHash, trip,
                       reg, probe>>

Next == Apply \/ Revert \/ Undo \/ Redo \/ Subscribe \/ Unsubscribe

Spec == Init /\ [][Next]_vars

(* ---------------------------------------------------------------------- *)
(* Failing calls: stores built from values with and without a reference   *)
(* cycle, with and without an error handler, and patches that make apply   *)
(* raise (a cyclic object, a record holding a cyclic array, a throwing     *)
(* updater) next to patches that commit.                                   *)
(* ---------------------------------------------------------------------- *)
ErrStates ==
    { Obj(<<KV(KeyA, Num(1))>>), Num(1), Ref(1),
      Obj(<<KV(KeyA, Num(1)), KV(KeyB, Ref(2))>>) }

ErrPatches ==
    { Ref(1), Obj(<<KV(KeyB, Ref(2))>>), Fn(3), Fn(1),
      Obj(<<KV(KeyB, Num(1))>>), Num(0) }

ErrInit ==
    \E initialState \in ErrStates, mh \in 0..1, handler \in BOOLEAN :
        /\ New(initialState, mh, handler)
        /\ trip = [pc |-> 0, vals |-> <<>>]
        /\ reg = NoReg
        /\ NoUtils
        /\ probe = NoProbe

ErrApply ==
    /\ Constructed
    /\ \E patch \in ErrPatches : Finish("apply", patch, <<>>, apply(patch))
    /\ UNCHANGED <<utils, trip, reg, probe>>

ErrNext == ErrApply \/ Revert \/ Undo \/ Redo \/ Subscribe \/ Unsubscribe

SpecErr == ErrInit /\ [][ErrNext]_vars

(* ---------------------------------------------------------------------- *)
(* The undo/redo round trip: a caller's straight-line script               *)
(*   apply(v1); apply(v2); apply(v3); undo(); undo(); redo(); redo()       *)
(* on a store with maxHistory >= 3; an exception ends the script.          *)
(* ---------------------------------------------------------------------- *)
TripRecords ==
    { Obj(<<KV(KeyA, Num(1))>>), Obj(<<KV(KeyA, Num(2))>>),
      Obj(<<KV(KeyA, Num(3))>>), Obj(<<KV(KeyA, StrV(<<"1">>))>>),
      Obj(<<KV(KeyA, StrV(<<"2">>))>>) }

TripNumbers == { Num(0), Num(1), Num(2), Num(3), Num(4) }

TripInit ==
    \E mh \in 3..MaxHist, S \in {TripRecords, TripNumbers} :
        \E initialState \in S, v1 \in S, v2 \in S, v3 \in S :
            LET vals == <<initialState, v1, v2, v3>>
            IN /\ \A i \in 1..4 : \A j \in 1..4 :
                      i # j => ~isEqual(vals[i], vals[j])
               /\ New(initialState, mh, TRUE)
               /\ trip = [pc |-> 0, vals |-> <<v1, v2, v3>>]
               /\ reg = NoReg
               /\ NoUtils
               /\ probe = NoProbe

TripStep == trip' = [trip EXCEPT !.pc = @ + 1] /\ UNCHANGED <<utils, reg, probe>>

TripApply ==
    /\ trip.pc \in 0..2 /\ last.ret # "throw"
    /\ Finish("apply", trip.vals[trip.pc + 1], <<>>,
              apply(trip.vals[trip.pc + 1]))
    /\ TripStep

TripUndo ==
    /\ trip.pc \in 3..4 /\ last.ret # "throw"
    /\ Finish("undo", Undefined, <<>>, undo)
    /\ TripStep

TripRedo ==
    /\ trip.pc \in 5..6 /\ last.ret # "throw"
    /\ Finish("redo", Undefined, <<>>, redo)
    /\ TripStep

TripNext == TripApply \/ TripUndo \/ TripRedo

SpecTrip == TripInit /\ [][TripNext]_vars

(* ---------------------------------------------------------------------- *)
(* Subscriptions: a caller that subscribes the same callbacks repeatedly   *)
(* and calls the unsubscribe functions it was handed, on a store of        *)
(* records without history or with a one-step history.                     *)
(* ---------------------------------------------------------------------- *)
SubsInit ==
    \E mh \in 0..1 :
        /\ New(Obj(<<KV(KeyA, Num(1))>>), mh, TRUE)
        /\ trip = [pc |-> 0, vals |-> <<>>]
        /\ reg = NoReg
        /\ NoUtils
        /\ probe = NoProbe

SubsSubscribe ==
    \E cb \in Callbacks :
        /\ reg[cb].n < MaxSubs
        /\ listeners' = subscribe(cb)
        /\ reg' = [reg EXCEPT ![cb] =
                      [n |-> @.n + 1, off |-> FALSE,
                       rank |-> IF @.rank > 0 THEN @.rank
                                ELSE 1 + Cardinality({c \in Callbacks :
                                                        reg[c].rank > 0})]]
        /\ last' = Call("subscribe", Undefined, <<>>,
                        Outcome(versions, rootHash, "none", <<>>, <<>>, <<>>))
        /\ UNCHANGED <<utils, onError, maxHistory, versions, rootHash, trip,
                       probe>>

\* Any unsubscribe function the caller holds may be called, also one whose
\* callback is already gone.
SubsUnsubscribe ==
    \E cb \in Callbacks :
        /\ reg[cb].n > 0 \/ reg[cb].off
        /\ listeners' = unsubscribe(cb)
        /\ reg' = [c \in Callbacks |->
                      IF c = cb THEN [n |-> 0, off |-> TRUE, rank |-> 0]
                      ELSE IF reg[cb].rank > 0 /\ reg[c].rank > reg[cb].rank
                      THEN [reg[c] EXCEPT !.rank = @ - 1]
                      ELSE reg[c]]
        /\ last' = Call("unsubscribe", Undefined, <<>>,
                        Outcome(versions, rootHash, "none", <<>>, <<>>, <<>>))
        /\ UNCHANGED <<utils, onError, maxHistory, versions, rootHash, trip,
                       probe>>

SubsNext ==
    Apply \/ Revert \/ Undo \/ Redo \/ SubsSubscribe \/ SubsUnsubscribe

SpecSubs == SubsInit /\ [][SubsNext]_vars

(* ---------------------------------------------------------------------- *)
(* Fan-out with callbacks that unsubscribe while it runs: callback 1 only  *)
(* takes note, callback 3 unsubscribes callback 1, callback 4 unsubscribes *)
(* itself; they are subscribed in any order.                               *)
(* ---------------------------------------------------------------------- *)
FanCallbacks == {1} \cup ActiveCallbacks

FanInit ==
    \E mh \in 0..1 :
        /\ New(Obj(<<KV(KeyA, Num(1))>>), mh, TRUE)
        /\ trip = [pc |-> 0, vals |-> <<>>]
        /\ reg = NoReg
        /\ NoUtils
        /\ probe = NoProbe

FanSubscribe ==
    \E cb \in FanCallbacks :
        /\ listeners' = subscribe(cb)
        /\ last' = Call("subscribe", Undefined, <<>>,
                        Outcome(versions, rootHash, "none", <<>>, <<>>, <<>>))
        /\ UNCHANGED <<utils, onError, maxHistory, versions, rootHash, trip,
                       reg, probe>>

FanNext == Apply \/ Revert \/ Undo \/ Redo \/ FanSubscribe \/ Unsubscribe

SpecFan == FanInit /\ [][FanNext]_vars

(* ---------------------------------------------------------------------- *)
(* Fingerprints of pairs of values: the first of a pair is fingerprinted   *)
(* by constructing a store from it, the second either by constructing      *)
(* another store from it or by applying it to a store that holds 1.        *)
(* ---------------------------------------------------------------------- *)
KeyC == <<"c">>
RecAB == Obj(<<KV(KeyA, Num(1)), KV(KeyB, Num(2))>>)
RecBA == Obj(<<KV(KeyB, Num(2)), KV(KeyA, Num(1))>>)

HashValues ==
    { RecAB, RecBA,
      Obj(<<KV(KeyC, RecAB), KV(KeyA, Num(1))>>),
      Obj(<<KV(KeyA, Num(1)), KV(KeyC, RecBA)>>),
      Arr(<<RecAB, Num(1)>>), Arr(<<RecBA, Num(1)>>), Arr(<<Num(1), RecAB>>),
      Obj(<<KV(KeyA, Arr(<<RecAB>>))>>), Obj(<<KV(KeyA, Arr(<<RecBA>>))>>),
      Obj(<<KV(KeyA, Num(1))>>), Obj(<<KV(KeyB, Num(2))>>),
      Obj(<<KV(KeyA, StrV(<<"1">>))>>),
      Num(1), Num(2), StrV(<<"1">>), Bool(TRUE), Null }

\* const s1 = new Shoy(a); const s2 = new Shoy(1)
HashInit ==
    \E a \in HashValues, b \in HashValues, mh \in 0..1 :
        /\ New(Num(1), mh, TRUE)
        /\ trip = [pc |-> 0, vals |-> <<>>]
        /\ reg = NoReg
        /\ NoUtils
        /\ probe = [NoProbe EXCEPT !.a = a, !.b = b,
                                   !.ha = construct(a).rootHash]

\* new Shoy(b).currentHash
HashConstruct ==
    /\ ~probe.done
    /\ probe' = [probe EXCEPT !.hb = construct(probe.b).rootHash,
                              !.way = "constructor",
                              !.done = TRUE]
    /\ UNCHANGED <<utils, onError, maxHistory, versions, rootHash, listeners,
                   last, trip, reg>>

\* s2.apply(b)
HashApply ==
    /\ ~probe.done
    /\ Finish("apply", probe.b, <<>>, apply(probe.b))
    /\ probe' = [probe EXCEPT !.hb = apply(probe.b).rhash, !.way = "apply",
                              !.done = TRUE]
    /\ UNCHANGED <<utils, trip, reg>>

HashNext == HashConstruct \/ HashApply

SpecHash == HashInit /\ [][HashNext]_vars

(* ---------------------------------------------------------------------- *)
(* The Patch Resolver on pairs of values: a store is built from the first  *)
(* value of a pair; the second is merged into it, either by deepMerge      *)
(* alone or by apply, whose committed value is then read back.             *)
(* ---------------------------------------------------------------------- *)
MergeValues ==
    { Obj(<<KV(KeyA, Num(1))>>), RecAB, Obj(<<KV(KeyB, Num(1))>>),
      Obj(<<KV(KeyC, RecAB)>>),
      Obj(<<KV(KeyC, Obj(<<KV(KeyA, Num(2))>>))>>),
      Obj(<<KV(KeyA, Num(1)), KV(KeyC, Obj(<<KV(KeyC, RecAB)>>))>>),
      Obj(<<KV(KeyC, Obj(<<KV(KeyC, Obj(<<KV(KeyA, Num(2))>>))>>))>>),
      Obj(<<KV(KeyC, Arr(<<Num(1), Num(2)>>))>>),
      Obj(<<KV(KeyC, Arr(<<Num(3)>>))>>),
      Obj(<<KV(KeyC, Num(1))>>),
      Arr(<<Num(1), Num(2)>>), Arr(<<Num(3)>>),
      Num(1), Null }

\* const s = new Shoy(prev)
MergeInit ==
    \E prev \in MergeValues, patch \in MergeValues :
        /\ New(prev, 1, TRUE)
        /\ trip = [pc |-> 0, vals |-> <<>>]
        /\ reg = NoReg
        /\ NoUtils
        /\ probe = [NoProbe EXCEPT !.a = prev, !.b = patch]

\* this.deepMerge(prev, patch)
MergeCall ==
    /\ ~probe.done
    /\ probe' = [probe EXCEPT !.out = deepMerge(probe.a, probe.b),
                              !.way = "deepMerge", !.done = TRUE]
    /\ UNCHANGED <<utils, onError, maxHistory, versions, rootHash, listeners,
                   last, trip, reg>>

\* s.apply(patch); s.current
MergeApply ==
    /\ ~probe.done
    /\ Finish("apply", probe.b, <<>>, apply(probe.b))
    /\ probe' = [probe EXCEPT !.out = MapGet(apply(probe.b).versions,
                                             apply(probe.b).rootHash),
                              !.way = "apply", !.done = TRUE]
    /\ UNCHANGED <<utils, trip, reg>>

MergeNext == MergeCall \/ MergeApply

SpecMerge == MergeInit /\ [][MergeNext]_vars

(* ---------------------------------------------------------------------- *)
(* Sync adapter: const sync = useSync(store, { url }) with a URL the       *)
(* WebSocket constructor accepts and no conflictResolver, then the events  *)
(* of the sockets and of the timer, remote messages, and disconnect().     *)
(* ---------------------------------------------------------------------- *)
\* The callback startListening subscribes when socket k opens: a new
\* closure each time. It only sends on the socket, which no variable of
\* the model records.
SyncCallback(k) == 10 + k

\* The states a remote peer sends.
SyncStates == { Obj(<<KV(KeyA, Num(1))>>), Obj(<<KV(KeyA, Num(2))>>) }

connect(sy) ==
    [sy EXCEPT !.sockets = Append(@, "connecting"),
               !.socket = Len(sy.sockets) + 1]

reconnect(sy) ==
    IF sy.reconnectTimer THEN sy ELSE [sy EXCEPT !.reconnectTimer = TRUE]

\* WebSocket.close(): starts the closing handshake of a socket that is
\* connecting or open; the close event comes later.
close(readyState) ==
    IF readyState \in {"connecting", "open"} THEN "closing" ELSE readyState

disconnect(sy) ==
    [sy EXCEPT !.sockets = IF sy.socket = 0 THEN @
                           ELSE [@ EXCEPT ![sy.socket] = close(@)],
               !.socket = 0,
               !.reconnectTimer = FALSE,
               !.unsubscribe = 0,
               !.disconnected = TRUE]

\* useSync: new SyncManager(store, options); manager.connect()
SyncInit ==
    /\ New(Obj(<<KV(KeyA, Num(1))>>), 0, TRUE)
    /\ trip = [pc |-> 0, vals |-> <<>>]
    /\ reg = NoReg
    /\ probe = NoProbe
    /\ sync = connect(NoSync)
    /\ chain = NoChain
    /\ devtools = NoDevTools
    /\ pending = <<>>

\* socket.onopen: startListening()
SyncOpen ==
    \E k \in 1..Len(sync.sockets) :
        /\ sync.sockets[k] = "connecting"
        /\ sync' = [sync EXCEPT !.sockets[k] = "open",
                                !.unsubscribe = SyncCallback(k)]
        /\ listeners' = subscribe(SyncCallback(k))
        /\ last' = Call("subscribe", Undefined, <<>>,
                        Outcome(versions, rootHash, "none", <<>>, <<>>, <<>>))
        /\ UNCHANGED <<onError, maxHistory, versions, rootHash, trip, reg,
                       probe, chain, devtools,
                   pending>>

\* The close event of a socket, after the connection failed or was lost or
\* after close() was called: socket.onclose runs reconnect().
SyncClose ==
    \E k \in 1..Len(sync.sockets) :
        /\ sync.sockets[k] # "closed"
        /\ sync' = reconnect([sync EXCEPT !.sockets[k] = "closed"])
        /\ UNCHANGED <<onError, maxHistory, versions, rootHash, listeners,
                       last, trip, reg, probe, chain, devtools,
                   pending>>

\* The reconnect timer fires: reconnectTimer = null; connect()
SyncTimer ==
    /\ sync.reconnectTimer
    /\ Len(sync.sockets) < MaxSockets
    /\ sync' = connect([sync EXCEPT !.reconnectTimer = FALSE])
    /\ UNCHANGED <<onError, maxHistory, versions, rootHash, listeners, last,
                   trip, reg, probe, chain, devtools,
                   pending>>

\* socket.onmessage: handleRemoteUpdate(message)
SyncMessage ==
    \E k \in 1..Len(sync.sockets), state \in SyncStates :
        /\ sync.sockets[k] = "open"
        /\ hash(state) # rootHash
        /\ Finish("apply", state, <<>>, apply(state))
        /\ UNCHANGED <<utils, trip, reg, probe>>

\* sync.disconnect()
SyncDisconnect ==
    /\ sync' = disconnect(sync)
    /\ listeners' = IF sync.unsubscribe = 0 THEN listeners
                    ELSE unsubscribe(sync.unsubscribe)
    /\ last' = IF sync.unsubscribe = 0 THEN last
               ELSE Call("unsubscribe", Undefined, <<>>,
                         Outcome(versions, rootHash, "none", <<>>, <<>>,
                                 <<>>))
    /\ UNCHANGED <<onError, maxHistory, versions, rootHash, trip, reg,
                   probe, chain, devtools,
                   pending>>

SyncNext ==
    SyncOpen \/ SyncClose \/ SyncTimer \/ SyncMessage \/ SyncDisconnect

SpecSync == SyncInit /\ [][SyncNext]_vars

(* ---------------------------------------------------------------------- *)
(* Middleware: useMiddleware(store, createValidatorMiddleware(validator))  *)
(* on a store of records { a: number, c: { a: number, b: number } }, then  *)
(* calls of store.apply, which getOrCreateChain has replaced.              *)
(* ---------------------------------------------------------------------- *)
\* The validators a caller installs:
\*   1: state => state.a <= 1
\*   2: state => !(state.c.a > 0 && state.c.b > 0)
Validators == {1, 2}

\* x > 0 and x <= 1 of JavaScript: false when x is undefined.
Positive(x) == x.t = "num" /\ x.n > 0
AtMostOne(x) == x.t = "num" /\ x.n <= 1

validator(v, state) ==
    IF v = 1 THEN AtMostOne(Field(state, KeyA))
    ELSE ~(Positive(Field(Field(state, KeyC), KeyA))
           /\ Positive(Field(Field(state, KeyC), KeyB)))

\* Middlewares that let every update pass:
\*   3: { before: (prev, next) => next }
\*   4: createLoggerMiddleware(), whose before hook returns nothing and
\*      whose after hook only logs
PassThrough == {3, 4}

\* The before hook of a middleware. That of
\* createValidatorMiddleware(validator) gives prev when the validator
\* rejects next, undefined otherwise.
before(v, prev, next) ==
    IF v = 3 THEN next
    ELSE IF v = 4 THEN Undefined
    ELSE IF ~validator(v, next) THEN prev ELSE Undefined

\* MiddlewareChain.executeBefore over the given middlewares.
RECURSIVE executeBefore(_, _, _, _)
executeBefore(middlewares, i, prev, result) ==
    IF i > Len(middlewares) THEN result
    ELSE LET processed == before(middlewares[i], prev, result)
         IN executeBefore(middlewares, i + 1, prev,
                          IF processed # Undefined THEN processed ELSE result)

\* The own enumerable keys of an object: those of a record, the indices of
\* an array.
OwnKeys(value) ==
    [i \in 1..Len(value.e) |->
        IF value.t = "arr" THEN NatToDec(i - 1) ELSE value.e[i].k]

\* Integer-like keys come first when the keys of an object are listed.
IntegerKey(key) ==
    Len(key) > 0 /\ \A i \in 1..Len(key) : \E d \in 1..10 : DecDigits[d] = key[i]

\* { ...prev } followed by result[key] = patchResult[key] for every own key
\* of patchResult.
RECURSIVE Assign(_, _, _)
Assign(result, patchResult, i) ==
    IF i > Len(patchResult.e) THEN result
    ELSE Assign(SetField(result, OwnKeys(patchResult)[i], patchResult.e[i].v),
                patchResult, i + 1)

Spread(prev, patchResult) ==
    LET copy == Obj([i \in 1..Len(prev.e) |->
                        KV(OwnKeys(prev)[i], prev.e[i].v)])
        result == Assign(copy, patchResult, 1)
    IN Obj(SelectSeq(result.e, LAMBDA en : IntegerKey(en.k))
           \o SelectSeq(result.e, LAMBDA en : ~IntegerKey(en.k)))

\* The function getOrCreateChain assigns to store.apply. An exception of the
\* current getter reaches handleError, one of the updater does not: the
\* updater is called outside the store.
applyWithChain(patch) ==
    IF getCurrent.error # "none" THEN Throw("Corruption", <<"current">>)
    ELSE IF patch.t = "fn" /\ FnThrows(patch) THEN Throw("Updater", <<>>)
    ELSE LET prev == current
             patchResult == IF patch.t = "fn" THEN CallFn(patch, prev)
                            ELSE patch
             next == IF isObject(prev) /\ isObject(patchResult)
                     THEN Spread(Deref(prev), Deref(patchResult))
                     ELSE patchResult
             processed == executeBefore(chain.middlewares, 1, prev, next)
             o == apply(processed)
         IN IF o.ret # "throw" /\ Falsy(MapGet(o.versions, o.rootHash))
            THEN [o EXCEPT !.ret = "throw", !.rhash = <<>>,
                           !.error = "Corruption",
                           !.errs = Append(@, "current")]
            ELSE o

\* MiddlewareChain.add
add(ch, middleware) ==
    [ch EXCEPT !.middlewares = Append(@, middleware)]

getOrCreateChain(ch) == [ch EXCEPT !.wrapped = TRUE]

useMiddleware(ch, middleware) == add(getOrCreateChain(ch), middleware)

\* The initial states and the patches of a caller of the validated store.
ValidStates ==
    { Obj(<<KV(KeyA, Num(1)),
            KV(KeyC, Obj(<<KV(KeyA, Num(1)), KV(KeyB, Num(0))>>))>>),
      Obj(<<KV(KeyA, Num(0)),
            KV(KeyC, Obj(<<KV(KeyA, Num(0)), KV(KeyB, Num(0))>>))>>) }

ValidPatches ==
    { Obj(<<KV(KeyA, Num(0))>>), Obj(<<KV(KeyA, Num(2))>>),
      Obj(<<KV(KeyC, Obj(<<KV(KeyB, Num(1))>>))>>),
      Obj(<<KV(KeyC, Obj(<<KV(KeyA, Num(0))>>))>>),
      Obj(<<KV(KeyC, Obj(<<KV(KeyA, Num(1)), KV(KeyB, Num(1))>>))>>),
      Fn(1) }

\* const store = new Shoy(initialState, { maxHistory });
\* useMiddleware(store, createValidatorMiddleware(validator)), once or for
\* both validators
ValidInit ==
    \E initialState \in ValidStates, mh \in 0..1,
       ms \in {<<1>>, <<2>>, <<1, 2>>} :
        /\ \A i \in 1..Len(ms) : validator(ms[i], initialState)
        /\ New(initialState, mh, TRUE)
        /\ trip = [pc |-> 0, vals |-> <<>>]
        /\ reg = NoReg
        /\ probe = NoProbe
        /\ sync = NoSync
        /\ devtools = NoDevTools
        /\ pending = <<>>
        /\ chain = IF Len(ms) = 1 THEN useMiddleware(NoChain, ms[1])
                   ELSE useMiddleware(useMiddleware(NoChain, ms[1]), ms[2])

\* store.apply(patch) on the store whose apply was replaced
ValidApply ==
    /\ chain.wrapped
    /\ \E patch \in ValidPatches :
           Finish("apply", patch, <<>>, applyWithChain(patch))
    /\ UNCHANGED <<utils, trip, reg, probe>>

ValidNext == ValidApply \/ Undo \/ Redo

SpecValid == ValidInit /\ [][ValidNext]_vars

(* ---------------------------------------------------------------------- *)
(* Middleware that lets every update pass, on stores of records, of        *)
(* nested records, of arrays and of numbers.                               *)
(* ---------------------------------------------------------------------- *)
PassStates ==
    { Obj(<<KV(KeyA, Num(1))>>),
      Obj(<<KV(KeyA, Num(1)),
            KV(KeyC, Obj(<<KV(KeyA, Num(1)), KV(KeyB, Num(0))>>))>>),
      Arr(<<Num(1), Num(2)>>),
      Num(1) }

\* The patches Patch<S> admits, for the S of the given state.
PassPatches(state) ==
    IF isArray(state)
    THEN { Arr(<<Num(3)>>), Fn(4) }
    ELSE IF isObject(state) /\ HasKey(state, KeyC)
    THEN { Obj(<<KV(KeyC, Obj(<<KV(KeyB, Num(1))>>))>>),
           Obj(<<KV(KeyC, Obj(<<KV(KeyA, Num(2))>>))>>),
           Fn(1) }
    ELSE Patches(state)

\* const store = new Shoy(initialState, { maxHistory });
\* useMiddleware(store, middleware), once or for both middlewares
PassInit ==
    \E initialState \in PassStates, mh \in 0..1,
       ms \in {<<3>>, <<3, 4>>} :
        /\ New(initialState, mh, TRUE)
        /\ trip = [pc |-> 0, vals |-> <<>>]
        /\ reg = NoReg
        /\ probe = NoProbe
        /\ sync = NoSync
        /\ devtools = NoDevTools
        /\ pending = <<>>
        /\ chain = IF Len(ms) = 1 THEN useMiddleware(NoChain, ms[1])
                   ELSE useMiddleware(useMiddleware(NoChain, ms[1]), ms[2])

\* store.apply(patch) on the store whose apply was replaced
PassApply ==
    /\ chain.wrapped
    /\ \E patch \in PassPatches(versions[1].v) :
           Finish("apply", patch, <<>>, applyWithChain(patch))
    /\ UNCHANGED <<utils, trip, reg, probe>>

PassNext == PassApply \/ Undo \/ Redo

SpecPass == PassInit /\ [][PassNext]_vars

(* ---------------------------------------------------------------------- *)
(* DevTools: const devtools = useDevTools(store, { maxSnapshots }) on a    *)
(* store of records or of numbers, then the operations of the store; the   *)
(* callback of useDevTools records a snapshot each time the store notifies *)
(* it.                                                                     *)
(* ---------------------------------------------------------------------- *)
\* The callback useDevTools subscribes: hash => devtools.record(hash,
\* store.current). It leaves the store's subscriptions alone.
DevCallback == 20

\* DevTools.deepClone: primitives and functions as they are, arrays and
\* records copied entry by entry.
RECURSIVE deepClone(_)
deepClone(obj) ==
    IF obj.t \notin {"obj", "arr"} THEN obj
    ELSE IF obj.t = "arr"
    THEN Arr([i \in 1..Len(obj.e) |-> deepClone(obj.e[i].v)])
    ELSE Obj([i \in 1..Len(obj.e) |->
                 KV(obj.e[i].k, deepClone(obj.e[i].v))])

\* DevTools.record: push, then one shift when the length exceeds
\* maxSnapshots.
record(dt, h, state) ==
    LET pushed == Append(dt.snapshots,
                         [hash |-> h, state |-> deepClone(state)])
    IN [dt EXCEPT !.snapshots = IF Len(pushed) > dt.maxSnapshots
                                THEN Tail(pushed)
                                ELSE pushed]

\* Whether the callback of useDevTools raises: it reads store.current, and
\* the getter throws when the value under the Root Pointer is falsy.
DevRaises(o) ==
    /\ \E i \in 1..Len(o.calls) : o.calls[i].cb = DevCallback
    /\ Falsy(MapGet(o.versions, o.rootHash))

\* The outcome of an operation whose fan-out reaches the callback of
\* useDevTools. When the callback raises, forEach stops there and the
\* exception leaves the operation through the catch blocks around the
\* notify call (contexts); what the operation had assigned stays.
recorded(o, contexts) ==
    IF DevRaises(o)
    THEN LET i == CHOOSE i \in 1..Len(o.calls) : o.calls[i].cb = DevCallback
         IN [o EXCEPT !.ret = "throw", !.rhash = <<>>,
                      !.error = "Corruption",
                      !.errs = <<"current">> \o contexts,
                      !.calls = SubSeq(@, 1, i),
                      !.listeners = After(listeners, SubSeq(o.calls, 1, i), 1)]
    ELSE o

\* The DevTools after the invocations of its callback among the calls of a
\* fan-out; each reads store.current, which the operation had set before it
\* notified, and records it unless the getter threw.
RECURSIVE observe(_, _, _)
observe(dt, o, i) ==
    IF i > Len(o.calls) THEN dt
    ELSE observe(IF o.calls[i].cb = DevCallback /\ ~DevRaises(o)
                 THEN record(dt, o.calls[i].h,
                             MapGet(o.versions, o.rootHash))
                 ELSE dt,
                 o, i + 1)

\* const store = new Shoy(initialState, { maxHistory });
\* const devtools = useDevTools(store, { maxSnapshots })
DevInit ==
    \E initialState \in InitStates, mh \in 0..1, ms \in 0..MaxSnapshots :
        /\ onError = TRUE
        /\ maxHistory = mh
        /\ versions = construct(initialState).versions
        /\ rootHash = construct(initialState).rootHash
        /\ last = construct(initialState).last
        /\ listeners = <<DevCallback>>
        /\ trip = [pc |-> 0, vals |-> <<>>]
        /\ reg = NoReg
        /\ probe = NoProbe
        /\ sync = NoSync
        /\ chain = NoChain
        /\ pending = <<>>
        /\ devtools = [attached |-> TRUE, maxSnapshots |-> ms,
                       snapshots |-> <<>>]

DevApply ==
    /\ devtools.attached
    /\ \E patch \in Patches(versions[1].v) :
           /\ Finish("apply", patch, <<>>,
                     recorded(apply(patch), <<"commit", "apply">>))
           /\ devtools' = observe(devtools, apply(patch), 1)
    /\ UNCHANGED <<sync, chain, pending, trip, reg, probe>>

DevRevert ==
    /\ devtools.attached
    /\ \E h \in RevertArgs :
           /\ Finish("revert", Undefined, h, recorded(revert(h), <<>>))
           /\ devtools' = observe(devtools, revert(h), 1)
    /\ UNCHANGED <<sync, chain, pending, trip, reg, probe>>

DevUndo ==
    /\ devtools.attached
    /\ Finish("undo", Undefined, <<>>, recorded(undo, <<>>))
    /\ devtools' = observe(devtools, undo, 1)
    /\ UNCHANGED <<sync, chain, pending, trip, reg, probe>>

DevRedo ==
    /\ devtools.attached
    /\ Finish("redo", Undefined, <<>>, recorded(redo, <<>>))
    /\ devtools' = observe(devtools, redo, 1)
    /\ UNCHANGED <<sync, chain, pending, trip, reg, probe>>

DevNext == DevApply \/ DevRevert \/ DevUndo \/ DevRedo

SpecDev == DevInit /\ [][DevNext]_vars

(* ---------------------------------------------------------------------- *)
(* Cycle validation on value graphs: a record or an array of two members,  *)
(* each a number, one of the caller's objects, or a literal record or      *)
(* array holding one of them, is handed to validateState.                  *)
(* ---------------------------------------------------------------------- *)
CycleMembers ==
    {Num(1)} \cup {Ref(id) : id \in 1..Len(Heap)}
        \cup {Obj(<<KV(KeyA, Ref(id))>>) : id \in 1..Len(Heap)}
        \cup {Arr(<<Ref(id)>>) : id \in 1..Len(Heap)}

CycleValues ==
    {Obj(<<KV(KeyA, x), KV(KeyB, y)>>) : x \in CycleMembers, y \in CycleMembers}
        \cup {Arr(<<x, y>>) : x \in CycleMembers, y \in CycleMembers}
        \cup {Ref(id) : id \in 1..Len(Heap)}

CycleInit ==
    \E state \in CycleValues :
        /\ New(Num(1), 0, TRUE)
        /\ trip = [pc |-> 0, vals |-> <<>>]
        /\ reg = NoReg
        /\ NoUtils
        /\ probe = [NoProbe EXCEPT !.a = state]

\* this.validateState(state)
CycleValidate ==
    /\ ~probe.done
    /\ probe' = [probe EXCEPT !.out = Bool(validateState(probe.a)),
                              !.way = "validateState", !.done = TRUE]
    /\ UNCHANGED <<utils, onError, maxHistory, versions, rootHash, listeners,
                   last, trip, reg>>

CycleNext == CycleValidate

SpecCycle == CycleInit /\ [][CycleNext]_vars

(* ---------------------------------------------------------------------- *)
(* Callbacks that call back into the store or raise while a fan-out runs:  *)
(*   5: h => { store.apply({ b: 1 }) }                                     *)
(*   6: h => { store.undo() }                                              *)
(*   7: h => { throw new Error("subscriber") }                             *)
(* next to callback 1, which only takes note of the hash. The operations   *)
(* are written over the fields of the store as the running call finds      *)
(* them: st holds versions and rootHash, the invocations made so far       *)
(* (calls), the handleError calls made so far (errs), the exception on its *)
(* way out (error, "none" when there is none), what the operation that     *)
(* returned last gave back (ret, rhash) and whether commit assigned the    *)
(* log (committed).                                                        *)
(* ---------------------------------------------------------------------- *)
NestedPatch == Obj(<<KV(KeyB, Num(1))>>)
ReentrantCallbacks == {5, 6}
RaisingCallback == 7
NestCallbacks == {1, RaisingCallback} \cup ReentrantCallbacks

\* The fields of the store when a public call starts.
Entered ==
    [versions |-> versions, rootHash |-> rootHash, calls |-> <<>>,
     errs |-> <<>>, error |-> "none", ret |-> "none", rhash |-> <<>>,
     committed |-> FALSE]

\* `throw error` out of the running function.
raise(st, error) == [st EXCEPT !.error = error, !.ret = "throw", !.rhash = <<>>]

\* `catch (error) { this.handleError(error, context); throw error }` around
\* a body that ended as st.
caught(st, context) ==
    IF st.error # "none" THEN [st EXCEPT !.errs = Append(@, context)] ELSE st

\* `return value` out of the running function.
return(st, ret, rhash) == [st EXCEPT !.ret = ret, !.rhash = rhash]

\* The callback has taken note of the hash it was invoked with.
noted(st, cb, h) == [st EXCEPT !.calls = Append(@, [cb |-> cb, h |-> h])]

\* A function that has called notify goes on after it: the exception of a
\* callback passes through it, otherwise it returns its value.
afterNotify(told, ret, rhash) ==
    IF told.error # "none" THEN told ELSE return(told, ret, rhash)

\* versions.set(hash, state), the retention of commit, rootHash = hash.
assign(st, h, state) ==
    LET set == MapSet(st.versions, h, state)
    IN [st EXCEPT !.versions = IF maxHistory > 0 THEN prune(set)
                               ELSE SelectSeq(set, LAMBDA entry : entry.h = h),
                  !.rootHash = h,
                  !.committed = TRUE]

\* The body of apply up to its call of commit: it throws, returns the
\* pointer, or has a value to commit.
resolveAt(st, patch) ==
    LET prev == MapGet(st.versions, st.rootHash)
        patchResult == IF patch.t = "fn" THEN CallFn(patch, prev) ELSE patch
        next == deepMerge(prev, patchResult)
        throw(error, errs) ==
            [way |-> "throw", error |-> error, errs |-> errs,
             state |-> Undefined]
        done == [way |-> "return", error |-> "none", errs |-> <<>>,
                 state |-> Undefined]
        go(state) == [way |-> "commit", error |-> "none", errs |-> <<>>,
                      state |-> state]
    IN IF Falsy(prev) THEN throw("Corruption", <<"current">>)
       ELSE IF patch.t = "fn" /\ FnThrows(patch) THEN throw("Updater", <<>>)
       ELSE IF isPrimitive(prev) /\ isPrimitive(patchResult)
       THEN IF ObjectIs(prev, patchResult) THEN done ELSE go(patchResult)
       ELSE IF hashRaises(next) THEN throw("RangeError", <<>>)
       ELSE IF hash(next) = st.rootHash THEN done
       ELSE go(next)

RECURSIVE forEachAt(_, _, _)
RECURSIVE proceed(_, _, _)
RECURSIVE invoke(_, _)
RECURSIVE commitAt(_, _)
RECURSIVE applyAt(_, _)
RECURSIVE undoAt(_)

\* listeners.forEach(cb => cb(hash)) from the i-th entry on. (No callback
\* of this family changes the Set.)
forEachAt(st, i, h) ==
    IF i > Len(listeners) THEN st
    ELSE proceed(invoke(noted(st, listeners[i], h), listeners[i]), i, h)

\* a forEach that goes on with the next callback after one has raised.
proceed_pastError(after, i, h) == forEachAt(after, i + 1, h)

\* An exception of a callback ends the iteration.
proceed(after, i, h) ==
    IF after.error # "none" THEN after ELSE forEachAt(after, i + 1, h)

\* The body of callback cb.
invoke(st, cb) ==
    IF cb = 5 THEN applyAt(st, NestedPatch)
    ELSE IF cb = 6 THEN undoAt(st)
    ELSE IF cb = RaisingCallback THEN raise(st, "Subscriber")
    ELSE st

notifyAt(st, h) == forEachAt(st, 1, h)

commitAt(st, state) ==
    IF validateState(state)
    THEN caught(raise(st, "CircularReference"), "commit")
    ELSE IF hashRaises(state)
    THEN caught(raise(st, "RangeError"), "commit")
    ELSE caught(afterNotify(notifyAt(assign(st, hash(state), state),
                                     hash(state)),
                            "hash", hash(state)),
                "commit")

\* apply from its call of commit on, or its return or throw before it.
applyFrom(st, r) ==
    IF r.way = "throw"
    THEN caught([raise(st, r.error) EXCEPT !.errs = @ \o r.errs], "apply")
    ELSE IF r.way = "return" THEN return(st, "hash", st.rootHash)
    ELSE caught(commitAt(st, r.state), "apply")

applyAt(st, patch) == applyFrom(st, resolveAt(st, patch))

revertAt(st, h) ==
    IF maxHistory = 0 \/ ~MapHas(st.versions, h)
    THEN return(st, "false", <<>>)
    ELSE afterNotify(notifyAt([st EXCEPT !.rootHash = h], h), "true", <<>>)

\* history[currentIdx + by], or the pointer itself when there is no such
\* entry or history is disabled.
neighbour(st, by) ==
    LET keys == MapKeys(st.versions)
        idx == indexOf(keys, st.rootHash) + by
    IN IF maxHistory = 0 \/ idx < 0 \/ idx >= Len(keys) THEN st.rootHash
       ELSE keys[idx + 1]

undoAt(st) ==
    IF maxHistory = 0 \/ indexOf(MapKeys(st.versions), st.rootHash) <= 0
    THEN return(st, "false", <<>>)
    ELSE afterNotify(notifyAt([st EXCEPT !.rootHash = neighbour(st, -1)],
                              neighbour(st, -1)),
                     "true", <<>>)

redoAt(st) ==
    IF \/ maxHistory = 0
       \/ indexOf(MapKeys(st.versions), st.rootHash) >= Len(st.versions) - 1
    THEN return(st, "false", <<>>)
    ELSE afterNotify(notifyAt([st EXCEPT !.rootHash = neighbour(st, 1)],
                              neighbour(st, 1)),
                     "true", <<>>)

\* The public call is over: the fields are as the call left them.
Left(op, patch, harg, st) ==
    /\ versions' = st.versions
    /\ rootHash' = st.rootHash
    /\ last' = Call(op, patch, harg, st)
    /\ UNCHANGED <<onError, maxHistory, listeners>>

\* const store = new Shoy({ a: 1 }, { maxHistory, onError })
NestInit ==
    \E mh \in 0..1 :
        /\ New(Obj(<<KV(KeyA, Num(1))>>), mh, TRUE)
        /\ trip = [pc |-> 0, vals |-> <<>>]
        /\ reg = NoReg
        /\ NoUtils
        /\ probe = NoProbe

\* store.subscribe(cb). A store with both callbacks 5 and 6 never comes to
\* the end of a fan-out (each undoes what the other did), so a caller
\* registers one of them at most.
NestSubscribe ==
    \E cb \in NestCallbacks :
        /\ cb \in ReentrantCallbacks =>
               \A i \in 1..Len(listeners) :
                   listeners[i] \in ReentrantCallbacks => listeners[i] = cb
        /\ listeners' = subscribe(cb)
        /\ last' = Call("subscribe", Undefined, <<>>,
                        Outcome(versions, rootHash, "none", <<>>, <<>>, <<>>))
        /\ UNCHANGED <<utils, onError, maxHistory, versions, rootHash, trip,
                       reg, probe>>

NestApply ==
    /\ \E patch \in Patches(versions[1].v) :
           Left("apply", patch, <<>>, applyAt(Entered, patch))
    /\ UNCHANGED <<utils, trip, reg, probe>>

NestRevert ==
    /\ \E h \in RevertArgs : Left("revert", Undefined, h, revertAt(Entered, h))
    /\ UNCHANGED <<utils, trip, reg, probe>>

NestUndo ==
    /\ Left("undo", Undefined, <<>>, undoAt(Entered))
    /\ UNCHANGED <<utils, trip, reg, probe>>

NestRedo ==
    /\ Left("redo", Undefined, <<>>, redoAt(Entered))
    /\ UNCHANGED <<utils, trip, reg, probe>>

NestNext ==
    \/ NestApply \/ NestRevert \/ NestUndo \/ NestRedo
    \/ NestSubscribe

SpecNest == NestInit /\ [][NestNext]_vars

(* ---------------------------------------------------------------------- *)
(* PatchStore, the asynchronous store class: its fields are those of Shoy  *)
(* (versions, rootHash, listeners, maxHistory, onError). apply is an async *)
(* function: it runs up to `await this.hash(state)` inside commit when it  *)
(* is called, and the rest of commit runs when the promise of the hash     *)
(* has resolved. A caller starts calls of apply without awaiting them.     *)
(* ---------------------------------------------------------------------- *)
\* The SHA-256 digest, in hex, of a canonical string, written as the string
\* it is the digest of behind a mark: distinct strings have distinct
\* digests.
digest(hashStr) == <<"#">> \o hashStr

\* PatchStore.hash, the value its promise resolves to.
asyncHash(state) ==
    IF isPrimitive(state) THEN <<"p">> \o String(state)
    ELSE digest(fastObjectHash(state))

\* PatchStore.apply and commit up to the suspension: the call throws,
\* returns the pointer, or waits for the hash of the value next.
start(patch) ==
    LET prev == current
        next == IF patch.t = "fn" THEN CallFn(patch, prev) ELSE patch
        ended(way, error, errs) ==
            [way |-> way, error |-> error, errs |-> errs, next |-> Undefined]
    IN IF Falsy(prev) THEN ended("throw", "Corruption", <<"current", "apply">>)
       ELSE IF patch.t = "fn" /\ FnThrows(patch)
       THEN ended("throw", "Updater", <<"apply">>)
       ELSE IF isEqual(prev, next) THEN ended("return", "none", <<>>)
       ELSE IF validateState(next)
       THEN ended("throw", "CircularReference", <<"commit", "apply">>)
       ELSE [way |-> "await", error |-> "none", errs |-> <<>>, next |-> next]

\* commit from the resolution of the hash on.
resume(call) ==
    LET h == asyncHash(call.next)
        set == MapSet(versions, h, call.next)
        kept == IF maxHistory > 0 THEN prune(set)
                ELSE SelectSeq(set, LAMBDA entry : entry.h = h)
    IN [Outcome(kept, h, "hash", h, notify(h), <<>>)
           EXCEPT !.committed = TRUE]

\* new PatchStore(initialState, { maxHistory, onError })
AsyncInit ==
    \E initialState \in InitStates, mh \in 0..1 :
        /\ onError = TRUE
        /\ maxHistory = mh
        /\ versions = <<[h |-> hash(initialState), v |-> initialState]>>
        /\ rootHash = hash(initialState)
        /\ listeners = <<>>
        /\ last = ConstructorCall(initialState, "none", "none", <<>>)
        /\ trip = [pc |-> 0, vals |-> <<>>]
        /\ reg = NoReg
        /\ NoUtils
        /\ probe = NoProbe

\* store.apply(patch), not awaited: the call runs up to its suspension.
AsyncApply ==
    /\ Len(pending) < MaxPending
    /\ \E patch \in Patches(versions[1].v) :
           LET r == start(patch)
           IN /\ pending' = IF r.way = "await"
                            THEN Append(pending,
                                        [patch |-> patch, next |-> r.next])
                            ELSE pending
              /\ last' = Call("apply", patch, <<>>,
                              IF r.way = "throw" THEN Throw(r.error, r.errs)
                              ELSE IF r.way = "return"
                              THEN Outcome(versions, rootHash, "hash",
                                           rootHash, <<>>, <<>>)
                              ELSE Outcome(versions, rootHash, "pending",
                                           <<>>, <<>>, <<>>))
    /\ UNCHANGED <<onError, maxHistory, versions, rootHash, listeners, sync,
                   chain, devtools, trip, reg, probe>>

\* The promise of a hash resolves and the call waiting for it goes on to
\* its end. The hash of a primitive is an already resolved promise, so
\* the calls go on in the order they were started; the digests of
\* crypto.subtle come in any order.
AsyncResume ==
    /\ \E i \in 1..Len(pending) :
           /\ i = 1 \/ isObject(pending[i].next)
           /\ Finish("apply", pending[i].patch, <<>>, resume(pending[i]))
           /\ pending' = [j \in 1..(Len(pending) - 1) |->
                             IF j < i THEN pending[j] ELSE pending[j + 1]]
    /\ UNCHANGED <<sync, chain, devtools, trip, reg, probe>>

AsyncNext == AsyncApply \/ AsyncResume

SpecAsync == AsyncInit /\ [][AsyncNext]_vars

(* ---------------------------------------------------------------------- *)
(* Vocabulary of the properties                                           *)
(* ---------------------------------------------------------------------- *)
\* The candidate of the Patch Resolver: an updater is called on the previous
\* value, and its result (or the patch itself) is merged into that value.
resolve(prev, patch) ==
    deepMerge(prev, IF patch.t = "fn" THEN CallFn(patch, prev) ELSE patch)

\* Every callback of ls was called exactly once, with h, and no other was.
NotifiedOnce(calls, ls, h) ==
    /\ \A i \in 1..Len(calls) : calls[i].h = h
    /\ \A cb \in Callbacks :
           Cardinality({i \in 1..Len(calls) : calls[i].cb = cb})
               = IF \E j \in 1..Len(ls) : ls[j] = cb THEN 1 ELSE 0

Last(seq) == seq[Len(seq)]

\* A plain keyed record.
isRecord(value) == value.t = "obj"

\* out is the record merge of patch into prev: it has the keys of both, each
\* once; a key of prev alone keeps its value, a key of patch takes the patch
\* value, or the record merge of the two values when both are records.
RECURSIVE RecordMerge(_, _, _)
RecordMerge(prev, patch, out) ==
    /\ isRecord(out)
    /\ {out.e[i].k : i \in 1..Len(out.e)}
           = {prev.e[i].k : i \in 1..Len(prev.e)}
                \cup {patch.e[i].k : i \in 1..Len(patch.e)}
    /\ \A i \in 1..Len(out.e) : \A j \in 1..Len(out.e) :
           out.e[i].k = out.e[j].k => i = j
    /\ \A i \in 1..Len(out.e) :
           LET key == out.e[i].k
           IN IF ~HasKey(patch, key)
              THEN out.e[i].v = Field(prev, key)
              ELSE IF /\ HasKey(prev, key)
                      /\ isRecord(Field(prev, key))
                      /\ isRecord(Field(patch, key))
              THEN RecordMerge(Field(prev, key), Field(patch, key),
                               out.e[i].v)
              ELSE out.e[i].v = Field(patch, key)

\* Wherever the merge of patch into prev meets a primitive or a sequence on
\* either side, out holds the patch value itself at that slot.
RECURSIVE Replaced(_, _, _)
Replaced(prev, patch, out) ==
    IF isRecord(prev) /\ isRecord(patch)
    THEN \A i \in 1..Len(patch.e) :
             Replaced(Field(prev, patch.e[i].k), patch.e[i].v,
                      Field(out, patch.e[i].k))
    ELSE out = patch

\* Some slot met by the merge below the top level holds a sequence or a
\* primitive on one side and a record on the other.
RECURSIVE CrossesBoundary(_, _)
CrossesBoundary(prev, patch) ==
    /\ isRecord(prev) /\ isRecord(patch)
    /\ \E i \in 1..Len(patch.e) :
           LET pv == Field(prev, patch.e[i].k)
               nv == patch.e[i].v
           IN \/ isRecord(pv) /\ ~isRecord(nv)
              \/ ~isRecord(pv) /\ HasKey(prev, patch.e[i].k) /\ isRecord(nv)
              \/ CrossesBoundary(pv, nv)

\* The probe has produced a merged value: deepMerge returned, or apply
\* committed its candidate.
Merged == probe.done /\ (probe.way = "deepMerge" \/ last.committed)

\* How many times the call invoked the callback cb.
Invocations(calls, cb) == Cardinality({i \in 1..Len(calls) : calls[i].cb = cb})

\* The last call was a commit or a successful revert, undo or redo.
Published(l) ==
    \/ l.op = "apply" /\ l.committed /\ l.ret = "hash"
    \/ l.op \in {"revert", "undo", "redo"} /\ l.ret = "true"

(* ---------------------------------------------------------------------- *)
(* Properties                                                             *)
(* ---------------------------------------------------------------------- *)

\* C1: in every reachable state the Root Pointer is a key of the Version
\* Log, and with maxHistory > 0 history() contains currentHash.
C1_RootInLog ==
    /\ MapHas(versions, rootHash)
    /\ maxHistory > 0 => \E i \in 1..Len(history) : history[i] = rootHash

\* C1 witness: a commit has evicted the entry that was current before it.
C1_Witness ==
    /\ maxHistory > 0
    /\ last.op = "apply" /\ last.committed
    /\ ~MapHas(versions, last.preRoot)

\* C2: after apply(patch) returns normally, current is structurally equal
\* to the candidate resolve(prev, patch), currentHash is the fingerprint of
\* the candidate, and apply returned currentHash.
C2_ApplyYieldsCandidate ==
    (last.op = "apply" /\ last.ret = "hash") =>
        LET candidate == resolve(last.prev, last.patch)
        IN /\ isEqual(current, candidate)
           /\ rootHash = hash(candidate)
           /\ last.rhash = rootHash

\* C3: an apply whose resolved candidate is structurally equal to current
\* returns the unchanged currentHash, leaves the Version Log and the Root
\* Pointer unchanged, runs no eviction and invokes no subscriber.
C3_NoOpIdempotence ==
    [][(last'.op = "apply" /\ isEqual(resolve(current, last'.patch), current))
         => /\ last'.ret = "hash"
            /\ last'.rhash = rootHash
            /\ versions' = versions
            /\ rootHash' = rootHash
            /\ ~last'.committed
            /\ last'.calls = <<>>]_vars

\* C4: with maxHistory = N > 0 the Version Log never holds more than N + 1
\* entries: history().length <= N + 1 in every reachable state.
C4_RetentionBound ==
    maxHistory > 0 => Len(history) <= maxHistory + 1

\* C4 witness: the log is full and a commit has pushed the initial value
\* out of it.
C4_Witness ==
    /\ maxHistory > 0
    /\ Len(history) = maxHistory + 1
    /\ last.op = "apply" /\ last.committed
    /\ \A v \in InitStates : ~MapHas(versions, hash(v))

\* C5: with maxHistory = 0 the Version Log holds exactly one entry, the one
\* the Root Pointer names, and history() is empty, in every reachable state.
C5_NoHistory ==
    maxHistory = 0 =>
        /\ Len(versions) = 1
        /\ versions[1].h = rootHash
        /\ history = <<>>

\* C5 witness: with history disabled a commit has replaced the only entry.
C5_Witness ==
    /\ maxHistory = 0
    /\ last.op = "apply" /\ last.committed
    /\ last.preRoot # rootHash

\* C6: undo() with maxHistory > 0 and the Root Pointer at position p of
\* history(): if p > 0 it returns true, the Root Pointer becomes
\* history()[p-1], every registered subscriber is invoked exactly once with
\* that fingerprint and the Version Log is unchanged; if p = 0 it returns
\* false with no mutation and no notification.
C6_Undo ==
    [][(last'.op = "undo" /\ maxHistory > 0) =>
          \A p \in 1..Len(history) :
              history[p] = rootHash =>
                  IF p > 1
                  THEN /\ last'.ret = "true"
                       /\ rootHash' = history[p - 1]
                       /\ NotifiedOnce(last'.calls, listeners, history[p - 1])
                       /\ versions' = versions
                  ELSE /\ last'.ret = "false"
                       /\ rootHash' = rootHash
                       /\ versions' = versions
                       /\ last'.calls = <<>>]_vars

\* C6 witness: an undo has succeeded from the third entry of the history,
\* with two subscribers registered.
C6_Witness ==
    /\ last.op = "undo" /\ last.ret = "true"
    /\ Len(history) >= 3 /\ last.preRoot = history[3]
    /\ Len(last.calls) = 2

\* C7: redo() with maxHistory > 0 and the Root Pointer at position p of
\* history(): if p < len - 1 it returns true, the Root Pointer becomes
\* history()[p+1], every registered subscriber is invoked exactly once with
\* that fingerprint and the Version Log is unchanged; if the Root Pointer is
\* the last element it returns false with no mutation and no notification.
C7_Redo ==
    [][(last'.op = "redo" /\ maxHistory > 0) =>
          \A p \in 1..Len(history) :
              history[p] = rootHash =>
                  IF p < Len(history)
                  THEN /\ last'.ret = "true"
                       /\ rootHash' = history[p + 1]
                       /\ NotifiedOnce(last'.calls, listeners, history[p + 1])
                       /\ versions' = versions
                  ELSE /\ last'.ret = "false"
                       /\ rootHash' = rootHash
                       /\ versions' = versions
                       /\ last'.calls = <<>>]_vars

\* C7 witness: a redo has succeeded from the first entry of a history of at
\* least three, with two subscribers registered.
C7_Witness ==
    /\ last.op = "redo" /\ last.ret = "true"
    /\ Len(history) >= 3 /\ last.preRoot = history[1]
    /\ Len(last.calls) = 2

\* C8: if undo() returns true then an immediately following redo() returns
\* true and restores currentHash and current (and symmetrically redo() then
\* undo()); and after applying three pairwise distinct values v1, v2, v3,
\* all different from the initial value, with maxHistory >= 3, the calls
\* undo(); undo() yield current == v1 and then redo(); redo() yield
\* current == v3.
C8_RoundTrip ==
    /\ [][/\ (last.op = "undo" /\ last.ret = "true" /\ last'.op = "redo")
               => (last'.ret = "true" /\ rootHash' = last.preRoot
                   /\ current' = last.prev)
          /\ (last.op = "redo" /\ last.ret = "true" /\ last'.op = "undo")
               => (last'.ret = "true" /\ rootHash' = last.preRoot
                   /\ current' = last.prev)]_vars
    /\ [](/\ trip.pc = 5 => isEqual(current, trip.vals[1])
          /\ trip.pc = 7 => isEqual(current, trip.vals[3]))

\* C9: with maxHistory > 0, after a successful undo() followed by an apply()
\* that commits, the Root Pointer is the last element of history() and
\* redo() returns false, whatever value the forking apply commits.
C9_ForkDisablesRedo ==
    [][(/\ maxHistory > 0
        /\ last.op = "undo" /\ last.ret = "true"
        /\ last'.op = "apply" /\ last'.committed)
         => /\ rootHash' = Last(history')
            /\ redo'.ret = "false"]_vars

\* C10: with maxHistory > 0, directly after an apply() that committed,
\* undo() returns true and current becomes the value that was current
\* immediately before that apply(), in every reachable state.
C10_UndoRestoresPrevious ==
    [][(/\ maxHistory > 0
        /\ last.op = "apply" /\ last.committed
        /\ last'.op = "undo")
         => /\ last'.ret = "true"
            /\ isEqual(current', last.prev)]_vars

\* C11: revert(h) with maxHistory > 0 and h a key of the Version Log returns
\* true, sets the Root Pointer to h so that current reads the value logged
\* under h, notifies every subscriber once with h, and neither removes nor
\* reorders a log entry, wherever h lies in the log.
C11_RevertLogged ==
    [][(last'.op = "revert" /\ maxHistory > 0 /\ MapHas(versions, last'.harg))
         => /\ last'.ret = "true"
            /\ rootHash' = last'.harg
            /\ getCurrent' = [error |-> "none",
                              value |-> MapGet(versions, last'.harg)]
            /\ NotifiedOnce(last'.calls, listeners, last'.harg)
            /\ versions' = versions]_vars

\* C12: revert(h) for a fingerprint h that is not a key of the Version Log
\* (never present, or already evicted) returns false and leaves current,
\* currentHash and the Version Log unchanged, with no subscriber invoked.
C12_RevertUnknown ==
    [][(last'.op = "revert" /\ ~MapHas(versions, last'.harg))
         => /\ last'.ret = "false"
            /\ versions' = versions
            /\ rootHash' = rootHash
            /\ current' = current
            /\ last'.calls = <<>>]_vars

\* C12 witness: with history enabled and a subscriber registered, a revert
\* to the fingerprint of an evicted value has been refused.
C12_Witness ==
    /\ maxHistory > 0
    /\ last.op = "revert" /\ last.ret = "false"
    /\ last.harg # InvalidHash /\ ~MapHas(versions, last.harg)
    /\ listeners # <<>>

\* C13: with maxHistory = 0, revert(h) for every h (currentHash included),
\* undo() and redo() return false, change neither the Root Pointer nor the
\* Version Log and invoke no subscriber.
C13_DisabledHistory ==
    [][(maxHistory = 0 /\ last'.op \in {"revert", "undo", "redo"})
         => /\ last'.ret = "false"
            /\ versions' = versions
            /\ rootHash' = rootHash
            /\ last'.calls = <<>>]_vars

\* C13 witness: with history disabled and two subscribers registered, a
\* revert to currentHash itself has been refused.
C13_Witness ==
    /\ maxHistory = 0
    /\ last.op = "revert" /\ last.ret = "false"
    /\ last.harg = rootHash
    /\ Len(listeners) = 2

\* C19: the Corruption error is never raised through the public contract:
\* in every reachable state reading current returns the value logged under
\* currentHash.
C19_NoCorruption ==
    /\ MapHas(versions, rootHash)
    /\ getCurrent = [error |-> "none", value |-> MapGet(versions, rootHash)]

\* C14: a callback registered more than once is invoked exactly once per
\* commit or successful revert/undo/redo, and each distinct registered
\* callback is invoked exactly once per such event.
C14_SubscriberDedup ==
    [][Published(last') =>
          \A cb \in Callbacks :
              reg[cb].n > 0 => Invocations(last'.calls, cb) = 1]_vars

\* C14 witness: one callback subscribed twice and another once, and a commit
\* has just invoked two callbacks.
C14_Witness ==
    /\ \E cb \in Callbacks : reg[cb].n = 2
    /\ \E cb \in Callbacks : reg[cb].n = 1
    /\ last.op = "apply" /\ last.committed
    /\ Len(last.calls) = 2

\* C15: once the unsubscribe function of cb has been called, no later
\* commit, revert, undo or redo invokes cb until it is subscribed again, and
\* the callbacks still registered keep being invoked.
C15_Unsubscribed ==
    [][last'.op \in {"apply", "revert", "undo", "redo"} =>
          \A cb \in Callbacks :
              /\ reg[cb].off => Invocations(last'.calls, cb) = 0
              /\ (reg[cb].n > 0 /\ Published(last'))
                     => Invocations(last'.calls, cb) = 1]_vars

\* C15 witness: one callback has been unsubscribed, the other is still
\* registered, and a successful undo has just invoked only the latter.
C15_Witness ==
    /\ \E cb \in Callbacks : reg[cb].off
    /\ \E cb \in Callbacks : reg[cb].n > 0
    /\ last.op = "undo" /\ last.ret = "true"
    /\ Len(last.calls) = 1

\* C20: two values that are structurally equal ignoring field-declaration
\* order, at every nesting depth, inside records and inside sequences, have
\* the same fingerprint, whether fingerprinted at construction or on apply.
C20_OrderIndependence ==
    (probe.done /\ isEqual(probe.a, probe.b)) => probe.ha = probe.hb

\* C20 witness: a record that nests a record and its reordering at both
\* levels have been fingerprinted, the second one by apply.
C20_Witness ==
    /\ probe.done /\ probe.way = "apply"
    /\ probe.a # probe.b /\ isEqual(probe.a, probe.b)
    /\ HasKey(probe.a, KeyC)
    /\ Keys(probe.a) # Keys(probe.b)
    /\ Keys(Field(probe.a, KeyC)) # Keys(Field(probe.b, KeyC))

\* C16: constructing a store with an initial value that contains a
\* reference cycle fails with the CircularReference error, leaves the caller
\* without an instance, and calls a configured onError exactly once, with
\* the context "constructor".
C16_CyclicConstruction ==
    (last.op = "constructor" /\ Cyclic(last.patch))
        => /\ last.ret = "throw"
           /\ last.error = "CircularReference"
           /\ ~Constructed
           /\ versions = <<>> /\ rootHash = <<>>
           /\ last.errs = <<"constructor">>
           /\ onError => handleError(last.errs) = <<"constructor">>

\* C16 witness: a construction with a handler from a record that holds a
\* cyclic array has thrown.
C16_Witness ==
    /\ last.op = "constructor" /\ last.ret = "throw"
    /\ onError
    /\ last.patch.t = "obj" /\ Cyclic(last.patch)

\* C17: apply(patch) whose resolved candidate contains a reference cycle
\* fails with the CircularReference condition raised by validation: the
\* candidate is validated before it is fingerprinted.
C17_ValidatedBeforeFingerprinted ==
    [][(/\ last'.op = "apply"
        /\ ~Falsy(current)
        /\ ~(last'.patch.t = "fn" /\ FnThrows(last'.patch))
        /\ Cyclic(resolve(current, last'.patch)))
         => /\ last'.ret = "throw"
            /\ last'.error = "CircularReference"]_vars

\* C18: whenever apply raises, the Version Log and the Root Pointer are as
\* before the call, no subscriber is invoked, and the error reaches the
\* caller.
C18_FailedApplyChangesNothing ==
    [][(last'.op = "apply" /\ last'.ret = "throw")
         => /\ versions' = versions
            /\ rootHash' = rootHash
            /\ last'.calls = <<>>
            /\ last'.error # "none"
            /\ Last(last'.errs) = "apply"]_vars

\* C18 witness: with history and a subscriber, an apply has raised while
\* fingerprinting its candidate.
C18_Witness ==
    /\ last.op = "apply" /\ last.ret = "throw"
    /\ last.error = "RangeError"
    /\ listeners # <<>>
    /\ Len(versions) = 2

\* C21: distinct primitive values never collide: two primitives that are
\* not the same value have different fingerprints.
C21_PrimitivesDistinct ==
    (/\ probe.done
     /\ isPrimitive(probe.a) /\ isPrimitive(probe.b)
     /\ ~ObjectIs(probe.a, probe.b))
        => probe.ha # probe.hb

\* C22: for structured values the two no-op tests agree: the fingerprint of
\* a candidate equals the fingerprint of the current value if and only if
\* the two are structurally equal.
C22_NoOpTestsEquivalent ==
    (probe.done /\ isObject(probe.a) /\ isObject(probe.b))
        => (probe.ha = probe.hb <=> isEqual(probe.a, probe.b))

C24_WholesaleReplacement ==
    Merged => Replaced(probe.a, probe.b, probe.out)

\* C24 witness: apply has merged a record whose key holds a sequence into a
\* record whose same key holds a record, and committed.
C24_Witness ==
    /\ Merged /\ probe.way = "apply"
    /\ CrossesBoundary(probe.a, probe.b)
    /\ isRecord(Field(probe.a, KeyC))
    /\ isArray(Field(probe.b, KeyC))
    /\ Field(probe.out, KeyC) = Field(probe.b, KeyC)

\* C25: each notification invokes the callbacks registered at that time,
\* each with the new fingerprint, in the order in which they were
\* registered, and within the call that publishes, whatever subscribe and
\* unsubscribe calls came before.
C25_RegistrationOrder ==
    [][Published(last') =>
          /\ Len(last'.calls) = Cardinality({c \in Callbacks : reg[c].rank > 0})
          /\ \A i \in 1..Len(last'.calls) :
                 /\ last'.calls[i].h = rootHash'
                 /\ reg[last'.calls[i].cb].rank = i]_vars

\* C25 witness: the registration of callback 2 is older than that of
\* callback 1, and a commit has invoked callback 2 first and callback 1
\* second.
C25_Witness ==
    /\ reg[2].rank = 1 /\ reg[1].rank = 2
    /\ last.op = "apply" /\ last.committed
    /\ Len(last.calls) = 2
    /\ last.calls[1].cb = 2 /\ last.calls[2].cb = 1

\* C26: unsubscribing during a notification raises no error and does not
\* affect the fan-out in progress: every callback registered when the
\* fan-out started is invoked exactly once for that event.
C26_UnsubscribeDuringFanOut ==
    [][Published(last') =>
          /\ last'.error = "none"
          /\ \A i \in 1..Len(listeners) :
                 Invocations(last'.calls, listeners[i]) = 1]_vars

\* C27: after disconnect() the socket has been closed and the manager
\* never opens another connection, whatever events come around it: a
\* reconnect timer already pending, or the close event of the socket
\* delivered after disconnect() returned.
C27_NoReconnectAfterDisconnect ==
    [][sync.disconnected =>
          /\ Len(sync'.sockets) = Len(sync.sockets)
          /\ \A k \in 1..Len(sync.sockets) :
                 sync.sockets[k] \in {"closing", "closed"}]_vars


\* C28: with createValidatorMiddleware(v) installed on a store whose initial
\* state satisfies v, store.current satisfies v after any sequence of apply
\* calls, and an apply whose resulting state would violate v leaves current
\* unchanged: the current value of the validated store satisfies every
\* installed validator.
C28_ValidatorHolds ==
    chain.wrapped =>
        \A i \in 1..Len(chain.middlewares) :
            validator(chain.middlewares[i], current)

\* The last n elements of a sequence, in order.
Recent(seq, n) ==
    IF Len(seq) <= n THEN seq ELSE SubSeq(seq, Len(seq) - n + 1, Len(seq))

\* C29: for any maxSnapshots >= 0 and any sequence of store changes,
\* getSnapshots().length never exceeds maxSnapshots, and the retained
\* snapshots are the most recent changes in the order they occurred, the
\* last one holding the latest current value: after every operation the
\* snapshots are at most maxSnapshots; they are the ones held before, or,
\* necessarily so when the Root Pointer moved, the most recent maxSnapshots
\* of those followed by the new current value under its hash; and the last
\* snapshot, if any, holds the current value.
C29_RecorderBounded ==
    [][devtools.attached =>
          LET now == [hash |-> rootHash', state |-> current']
              appended == Recent(Append(devtools.snapshots, now),
                                 devtools.maxSnapshots)
          IN /\ Len(devtools'.snapshots) <= devtools.maxSnapshots
             /\ devtools'.snapshots \in {devtools.snapshots, appended}
             /\ rootHash' # rootHash => devtools'.snapshots = appended
             /\ devtools'.snapshots # <<>> =>
                    Last(devtools'.snapshots).state = current']_vars

\* C30: with maxHistory = N > 0, when a commit makes the Version Log exceed
\* N + 1 entries, exactly the oldest-inserted entries are removed until
\* N + 1 remain, the surviving entries keep their relative insertion order,
\* and the newly committed entry is the last element of history(): when an
\* apply commits under a key the full log did not hold, the log afterwards
\* is the N newest entries it held, in their order, followed by the
\* committed value under the returned hash.
C30_FifoEviction ==
    [][(/\ maxHistory > 0
        /\ last'.op = "apply" /\ last'.committed
        /\ Len(versions) = maxHistory + 1
        /\ ~MapHas(versions, last'.rhash))
         => /\ Len(versions') = maxHistory + 1
            /\ SubSeq(versions', 1, maxHistory)
                   = SubSeq(versions, 2, Len(versions))
            /\ Last(history') = last'.rhash
            /\ Last(versions').v = current'
            /\ rootHash' = last'.rhash]_vars

\* C30 witness: a store with maxHistory = 2 holds three entries after a
\* commit that evicted the initial value; the value that was current before
\* the commit is now the second entry.
C30_Witness ==
    /\ maxHistory = 2
    /\ Len(versions) = 3
    /\ last.op = "apply" /\ last.committed
    /\ Last(history) = rootHash
    /\ versions[2].h = last.preRoot
    /\ \A v \in InitStates : ~MapHas(versions, hash(v))

\* C31: with maxHistory > 0, an apply that commits a candidate whose
\* fingerprint is already a key of the Version Log adds no entry, evicts
\* nothing and leaves the order of history() unchanged; the Root Pointer
\* moves to the existing entry at its old position.
C31_DeduplicatedCommit ==
    [][(/\ maxHistory > 0
        /\ last'.op = "apply" /\ last'.committed
        /\ MapHas(versions, last'.rhash))
         => /\ history' = history
            /\ Len(versions') = Len(versions)
            /\ rootHash' = last'.rhash
            /\ indexOf(history', rootHash') = indexOf(history, last'.rhash)]_vars

\* C31 witness: an apply has committed a value whose fingerprint the log
\* already held before the entry that was current, so the Root Pointer now
\* names an entry that is not the last of history().
C31_Witness ==
    /\ maxHistory > 0
    /\ last.op = "apply" /\ last.committed
    /\ Last(history) = last.preRoot
    /\ rootHash # last.preRoot

\* An object of the caller occurs at two places of the value or more.
RECURSIVE Occurrences(_, _)
Occurrences(value, id) ==
    IF value.t = "ref"
    THEN (IF value.n = id THEN 1 ELSE 0)
    ELSE IF value.e = <<>> THEN 0
    ELSE Occurrences(value.e[1].v, id)
         + Occurrences([value EXCEPT !.e = Tail(@)], id)

\* C32: cycle validation terminates on every finite value graph, raises
\* CircularReference if and only if some container is reachable from itself
\* through nested containers, and accepts a sub-value reachable from the
\* root along two different paths.
C32_PathScopedValidation ==
    (probe.done /\ probe.way = "validateState") =>
        (probe.out = Bool(TRUE)) <=> Cyclic(probe.a)

\* C32 witness: a value in which the same acyclic object, itself a diamond,
\* is reached along two paths has been validated and accepted.
C32_Witness ==
    /\ probe.done /\ probe.way = "validateState"
    /\ Occurrences(probe.a, 6) = 2
    /\ probe.out = Bool(FALSE)

\* C33: with maxHistory >= 1, immediately after an apply that commits, the
\* fingerprint that was the Root Pointer just before that apply is still a
\* key of the Version Log and revert to it returns true, also when the
\* apply follows undo or revert calls and triggers eviction.
C33_PreviousStillLogged ==
    (maxHistory >= 1 /\ last.op = "apply" /\ last.committed) =>
        /\ MapHas(versions, last.preRoot)
        /\ revert(last.preRoot).ret = "true"


\* The hash of the invocation of callback cb that came last among calls.
Delivered(calls, cb) ==
    calls[CHOOSE i \in 1..Len(calls) :
              /\ calls[i].cb = cb
              /\ \A j \in (i + 1)..Len(calls) : calls[j].cb # cb].h

\* C34: when a subscriber calls apply or undo on the store from inside a
\* notification, then once the outermost operation has returned, the
\* fingerprint most recently delivered to every registered subscriber
\* equals currentHash.
C34_NoStaleFingerprint ==
    (last.op \in {"apply", "revert", "undo", "redo"} /\ last.error = "none") =>
        \A i \in 1..Len(listeners) :
            Invocations(last.calls, listeners[i]) > 0 =>
                Delivered(last.calls, listeners[i]) = rootHash

C36_HandlerOncePerCall ==
    (onError /\ last.ret = "throw") => Len(handleError(last.errs)) = 1

\* Every entry of the log is filed under the fingerprint of its value.
ContentAddressed(m) == \A i \in 1..Len(m) : hash(m[i].v) = m[i].h

\* C37: in every state reachable through construction, apply, revert, undo
\* and redo, every entry (h, v) of the Version Log satisfies
\* fingerprint(v) = h, and no commit changes the value logged under any
\* fingerprint other than the one it commits. The log of the constructor is
\* content-addressed, every entry a step writes or changes is filed under
\* the fingerprint of its value (the entries it leaves alone were so when
\* they were written), and a commit leaves the values under the other
\* fingerprints as they were.
C37_ContentAddressing ==
    [][/\ last.op = "constructor" => ContentAddressed(versions)
       /\ ContentAddressed(SelectSeq(versions',
              LAMBDA entry : \A i \in 1..Len(versions) : versions[i] # entry))
       /\ last'.committed =>
              \A i \in 1..Len(versions) :
                  (MapHas(versions', versions[i].h)
                       /\ versions[i].h # last'.rhash)
                      => MapGet(versions', versions[i].h) = versions[i].v]_vars

\* C37 witness: a commit onto a fingerprint that was already a key, not the
\* first of the log, has replaced the value logged under it ({ a: "1" }
\* where { a: 1 } or nothing was), next to other entries.
C37_Witness ==
    /\ last.op = "apply" /\ last.committed
    /\ Len(versions) >= 2
    /\ rootHash # versions[1].h
    /\ Len(versions) > indexOf(MapKeys(versions), rootHash) + 1
    /\ current = Obj(<<KV(KeyA, StrV(<<"1">>))>>)

\* C38: on a store with only pass-through middleware installed, every
\* apply(patch) yields the same current, currentHash and history as the
\* same apply on a store without middleware, for record, nested-record,
\* ordered-sequence and primitive states and for value and function
\* patches.
C38_MiddlewareTransparent ==
    [][last'.op = "apply" =>
          LET plain == apply(last'.patch)
          IN /\ rootHash' = plain.rootHash
             /\ MapGet(versions', rootHash')
                    = MapGet(plain.versions, plain.rootHash)
             /\ MapKeys(versions') = MapKeys(plain.versions)]_vars

\* The subscriptions of the SyncManager among the listeners ls.
Subscriptions(ls) ==
    {i \in 1..Len(ls) : \E k \in 1..Len(sync.sockets) : ls[i] = SyncCallback(k)}

\* C39: across any sequence of socket open, close and reconnect events, a
\* SyncManager holds at most one subscription on the store at a time, and
\* disconnect() leaves the manager with no subscription on the store.
C39_SingleSubscription ==
    [][/\ Cardinality(Subscriptions(listeners')) <= 1
       /\ (sync'.disconnected /\ ~sync.disconnected) =>
              Subscriptions(listeners') = {}]_vars

\* C40: PatchStore.apply runs to completion as one logical step: the value
\* an apply with an updater function commits is the updater's result on the
\* value that was current just before the commit, so that of two calls
\* started without awaiting, the second builds on the result of the first
\* and no update is lost.
C40_ApplyIsOneStep ==
    [][(last'.op = "apply" /\ last'.committed /\ last'.patch.t = "fn")
          => MapGet(versions', rootHash') = CallFn(last'.patch, last'.prev)]_vars

==============================================================================
